---- MODULE Spec2Model ----
(***************************************************************************)
(* flv.js I/O layer: IOController (stash buffer engine, pause / resume /   *)
(* seek, early-EOF reconnect), the FetchStreamLoader that feeds it and the *)
(* SpeedSampler that drives the dynamic stash size.                        *)
(*                                                                         *)
(* The resource is TotalLen bytes long; the byte at absolute offset i has  *)
(* the value i, so a misplaced byte is always visible.  Sizes are in bytes *)
(* and times in milliseconds, as in the source.                            *)
(***************************************************************************)
EXTENDS Integers, Sequences, FiniteSets, TLC

(* ------------------------------ bounds -------------------------------- *)
TotalLen == 4
MaxChunk == 2
MaxDisturbances == 2

(* ------------------------- program constants -------------------------- *)
MiB == 1024 * 1024
DefaultStashInitialSize == 1024 * 384
InitialBufferSize == 1024 * 1024 * 3
MaxStashSizeKB == 8192
speedNormalizeList == <<64, 128, 256, 384, 512, 768, 1024, 1536, 2048, 3072, 4096>>

\* LoaderStatus
kIdle == "kIdle"
kConnecting == "kConnecting"
kBuffering == "kBuffering"
kError == "kError"
kComplete == "kComplete"

\* LoaderErrors
EXCEPTION == "Exception"
HTTP_STATUS_CODE_INVALID == "HttpStatusCodeInvalid"
CONNECTING_TIMEOUT == "ConnectingTimeout"
EARLY_EOF == "EarlyEof"
UNRECOVERABLE_EARLY_EOF == "UnrecoverableEarlyEof"

\* null for a length (contentLength, totalLength, filesize) and for "no value"
Null == -1

VARIABLES
    cfg,      \* config and DataSource, fixed at construction
    io,       \* IOController fields
    loader,   \* the IOController's current loader instance (FetchStreamLoader)
    sampler,  \* the IOController's SpeedSampler
    now,      \* the millisecond clock read by the SpeedSampler
    out,      \* what the controller called on its consumer during the last step
    obs,      \* observer of the consumer side (history of dispatches)
    last,     \* the operation or transport event of the last step, the callbacks
              \* the loader made on the controller during it, and whether
              \* onError was bound
    budget    \* whether open() was called; how many disturbances (seek, pause,
              \* abort, clock tick, transport failure) have happened

vars == <<cfg, io, loader, sampler, now, out, obs, last, budget>>

(* ------------------------------ resource ------------------------------ *)
\* The bytes [from, from + len) of the resource.
ResourceBytes(from, len) == [i \in 1..len |-> from + i - 1]

SeqDrop(s, n) == SubSeq(s, n + 1, Len(s))

(* ---------------------------- SpeedSampler ---------------------------- *)
NewSampler ==
    [firstCheckpoint |-> 0, lastCheckpoint |-> 0, intervalBytes |-> 0,
     totalBytes |-> 0, lastSecondBytes |-> 0]

SamplerReset(sp) == NewSampler

\* addBytes rotating the window only after more than 1000 ms.
AddBytesLate(sp, bytes) ==
    IF sp.firstCheckpoint = 0
    THEN [sp EXCEPT !.firstCheckpoint = now, !.lastCheckpoint = now,
                    !.intervalBytes = @ + bytes, !.totalBytes = @ + bytes]
    ELSE IF now - sp.lastCheckpoint <= 1000
    THEN [sp EXCEPT !.intervalBytes = @ + bytes, !.totalBytes = @ + bytes]
    ELSE [sp EXCEPT !.lastSecondBytes = sp.intervalBytes, !.intervalBytes = bytes,
                    !.totalBytes = @ + bytes, !.lastCheckpoint = now]

AddBytes(sp, bytes) ==
    IF sp.firstCheckpoint = 0
    THEN [sp EXCEPT !.firstCheckpoint = now, !.lastCheckpoint = now,
                    !.intervalBytes = @ + bytes, !.totalBytes = @ + bytes]
    ELSE IF now - sp.lastCheckpoint < 1000
    THEN [sp EXCEPT !.intervalBytes = @ + bytes, !.totalBytes = @ + bytes]
    ELSE [sp EXCEPT !.lastSecondBytes = sp.intervalBytes, !.intervalBytes = bytes,
                    !.totalBytes = @ + bytes, !.lastCheckpoint = now]

RECURSIVE GCD(_, _)
GCD(a, b) == IF b = 0 THEN a ELSE GCD(b, a % b)

\* A speed in KiB/s is the rational num / den, here with the factor common to
\* 1000 and the duration taken out.  The getters also rotate the window
\* (addBytes(0)), so they return the sampler too.
CurrentKBps(sp) ==
    LET sp1 == AddBytes(sp, 0)
        durationMs == now - sp1.lastCheckpoint
        g == GCD(1000, durationMs)
    IN  IF durationMs = 0
        THEN [sp |-> sp1, num |-> sp1.intervalBytes, den |-> 1024]
        ELSE [sp |-> sp1, num |-> sp1.intervalBytes * (1000 \div g),
              den |-> (durationMs \div g) * 1024]

LastSecondKBps(sp) ==
    LET sp1 == AddBytes(sp, 0)
    IN  IF sp1.lastSecondBytes # 0
        THEN [sp |-> sp1, num |-> sp1.lastSecondBytes, den |-> 1024]
        ELSE IF now - sp1.lastCheckpoint >= 500
        THEN CurrentKBps(sp1)
        ELSE [sp |-> sp1, num |-> 0, den |-> 1]

(* --------------------- IOController: pure helpers --------------------- *)
\* The search with a strict lower comparison.
RECURSIVE NormalizeSearchStrict(_, _, _, _, _)
NormalizeSearchStrict(list, num, den, lbound, ubound) ==
    IF lbound > ubound THEN Null
    ELSE LET lastIx == Len(list) - 1
             mid == lbound + ((ubound - lbound) \div 2)
         IN  IF mid = lastIx \/ (num > list[mid + 1] * den /\ num < list[mid + 2] * den)
             THEN list[mid + 1]
             ELSE IF list[mid + 1] * den < num
             THEN NormalizeSearchStrict(list, num, den, mid + 1, ubound)
             ELSE NormalizeSearchStrict(list, num, den, lbound, mid - 1)

\* The binary search of _normalizeSpeed over list (1-based here), for the
\* input num / den.  Null stands for falling out of the loop (undefined).
RECURSIVE NormalizeSearch(_, _, _, _, _)
NormalizeSearch(list, num, den, lbound, ubound) ==
    IF lbound > ubound THEN Null
    ELSE LET lastIx == Len(list) - 1
             mid == lbound + ((ubound - lbound) \div 2)
         IN  IF mid = lastIx \/ (num >= list[mid + 1] * den /\ num < list[mid + 2] * den)
             THEN list[mid + 1]
             ELSE IF list[mid + 1] * den < num
             THEN NormalizeSearch(list, num, den, mid + 1, ubound)
             ELSE NormalizeSearch(list, num, den, lbound, mid - 1)

NormalizeSpeed(list, num, den) ==
    IF num < list[1] * den THEN list[1]
    ELSE NormalizeSearch(list, num, den, 0, Len(list) - 1)

RECURSIVE DoubleUntil(_, _)
DoubleUntil(bufferNewSize, expectedBytes) ==
    IF bufferNewSize + MiB < expectedBytes
    THEN DoubleUntil(bufferNewSize * 2, expectedBytes)
    ELSE bufferNewSize

\* c is the IOController record.  The buffer's content is a sequence; a new
\* buffer keeps the used bytes.
ExpandBuffer(c, expectedBytes) ==
    LET bufferNewSize == DoubleUntil(c.stashSize, expectedBytes) + MiB
    IN  IF bufferNewSize = c.bufferSize THEN c
        ELSE [c EXCEPT !.stashBuffer = SubSeq(c.stashBuffer, 1, c.stashUsed),
                       !.bufferSize = bufferNewSize]

\* The stash size with the 1.5 band ending below 1024.
StashSizeKBNarrowBand(isLive, normalized) ==
    LET kb == IF isLive THEN normalized
              ELSE IF normalized < 512 THEN normalized
              ELSE IF normalized >= 512 /\ normalized < 1024 THEN (normalized * 3) \div 2
              ELSE normalized * 2
    IN  IF kb > MaxStashSizeKB THEN MaxStashSizeKB ELSE kb

StashSizeKB(isLive, normalized) ==
    LET kb == IF isLive THEN normalized
              ELSE IF normalized < 512 THEN normalized
              ELSE IF normalized >= 512 /\ normalized <= 1024 THEN (normalized * 3) \div 2
              ELSE normalized * 2
    IN  IF kb > MaxStashSizeKB THEN MaxStashSizeKB ELSE kb

\* _adjustStashSize calling _expandBuffer whatever the buffer's size.
AdjustStashSizeAlwaysExpand(c, normalized) ==
    LET stashSizeKB == StashSizeKB(cfg.isLive, normalized)
        bufferSize == stashSizeKB * 1024 + MiB
        c1 == ExpandBuffer(c, bufferSize)
    IN  [c1 EXCEPT !.stashSize = stashSizeKB * 1024]

AdjustStashSize(c, normalized) ==
    LET stashSizeKB == StashSizeKB(cfg.isLive, normalized)
        bufferSize == stashSizeKB * 1024 + MiB
        c1 == IF c.bufferSize < bufferSize THEN ExpandBuffer(c, bufferSize) ELSE c
    IN  [c1 EXCEPT !.stashSize = stashSizeKB * 1024]

\* Writing bytes into the buffer at offset off (Uint8Array.set).
WriteAt(buf, off, bytes) ==
    SubSeq(buf, 1, off) \o bytes \o SeqDrop(buf, off + Len(bytes))

(* -------------------------- FetchStreamLoader ------------------------- *)
\* phase is where the loader's promise chain stands: "none" (never opened),
\* "fetch" (fetch() pending), "read" (reader.read() pending), "end".  pos is
\* how many bytes of the response body the reader has handed out, opens how
\* many times open() was called on the instance.
NewLoader ==
    [status |-> kIdle, needStash |-> TRUE, requestAbort |-> FALSE,
     contentLength |-> Null, receivedLength |-> 0, rangeFrom |-> Null,
     phase |-> "none", firstPump |-> FALSE, pos |-> 0, opens |-> 0,
     nextStart |-> Null]

LoaderIsWorking(ld) == ld.status = kConnecting \/ ld.status = kBuffering

LoaderOpen(ld, from) ==
    [ld EXCEPT !.rangeFrom = from, !.status = kConnecting, !.phase = "fetch",
               !.firstPump = FALSE, !.pos = 0, !.opens = @ + 1]

LoaderAbort(ld) == [ld EXCEPT !.requestAbort = TRUE]

\* destroy() nulls the callbacks: whatever the old chain does later is not
\* seen by the controller, which drops its reference to the instance.
LoaderDestroy(ld) ==
    LET ld1 == IF LoaderIsWorking(ld) THEN LoaderAbort(ld) ELSE ld
    IN  [ld1 EXCEPT !.status = kIdle, !.phase = "end"]

(* ------------------- IOController: stateful helpers ------------------- *)
\* A world w is the state a handler runs on: the controller c, its loader ld
\* and sampler sp, the calls made on the consumer so far (out), the answers
\* the consumer will give to the coming dispatches (ans), whether each answer
\* was within [0, len] (ok), the last return value (ret) and whether the
\* handler threw (thrown).
Event(t, kind) ==
    [t |-> t, start |-> 0, bytes |-> <<>>, consumed |-> 0, kind |-> kind]

DataEvent(byteStart, chunks, consumed) ==
    [t |-> "data", start |-> byteStart, bytes |-> chunks, consumed |-> consumed,
     kind |-> ""]

\* The call of an onDataArrival that is not bound, which throws a TypeError.
FailedDispatch(byteStart, chunks) ==
    [t |-> "thrown", start |-> byteStart, bytes |-> chunks, consumed |-> 0,
     kind |-> "TypeError"]

Emit(w, e) == [w EXCEPT !.out = Append(@, e)]

\* _dispatchChunks setting currentRange.to one past the chunk's last byte.
DispatchChunksOnePast(w, chunks, byteStart) ==
    LET consumed == Head(w.ans)
    IN  IF ~w.hasOnData
        THEN [w EXCEPT !.c.currentRange.to = byteStart + Len(chunks),
                       !.out = Append(@, FailedDispatch(byteStart, chunks)),
                       !.thrown = TRUE]
        ELSE [w EXCEPT !.c.currentRange.to = byteStart + Len(chunks),
                       !.out = Append(@, DataEvent(byteStart, chunks, consumed)),
                       !.ans = Tail(@),
                       !.ok = @ /\ consumed <= Len(chunks),
                       !.ret = consumed]

\* Lines 561-565.  Calling an onDataArrival that is not bound throws a
\* TypeError after currentRange.to was set.
DispatchChunks(w, chunks, byteStart) ==
    LET consumed == Head(w.ans)
    IN  IF ~w.hasOnData
        THEN [w EXCEPT !.c.currentRange.to = byteStart + Len(chunks) - 1,
                       !.out = Append(@, FailedDispatch(byteStart, chunks)),
                       !.thrown = TRUE]
        ELSE [w EXCEPT !.c.currentRange.to = byteStart + Len(chunks) - 1,
                       !.out = Append(@, DataEvent(byteStart, chunks, consumed)),
                       !.ans = Tail(@),
                       !.ok = @ /\ consumed <= Len(chunks),
                       !.ret = consumed]

\* _flushStashBuffer keeping stashByteStart when it keeps a tail.
FlushStashBufferKeepingStart(w, dropUnconsumed) ==
    IF w.c.stashUsed > 0
    THEN LET buffer == SubSeq(w.c.stashBuffer, 1, w.c.stashUsed)
             w1 == DispatchChunks(w, buffer, w.c.stashByteStart)
             consumed == w1.ret
             remain == Len(buffer) - consumed
         IN  IF w1.thrown THEN w1
             ELSE IF consumed < Len(buffer) /\ ~dropUnconsumed
             THEN IF consumed > 0
                  THEN [w1 EXCEPT !.c.stashBuffer = WriteAt(@, 0, SeqDrop(buffer, consumed)),
                                  !.c.stashUsed = remain,
                                  !.ret = 0]
                  ELSE [w1 EXCEPT !.ret = 0]
             ELSE [w1 EXCEPT !.c.stashUsed = 0, !.c.stashByteStart = 0, !.ret = remain]
    ELSE [w EXCEPT !.ret = 0]

\* Lines 749-785.
FlushStashBuffer(w, dropUnconsumed) ==
    IF w.c.stashUsed > 0
    THEN LET buffer == SubSeq(w.c.stashBuffer, 1, w.c.stashUsed)
             w1 == DispatchChunks(w, buffer, w.c.stashByteStart)
             consumed == w1.ret
             remain == Len(buffer) - consumed
         IN  IF w1.thrown THEN w1
             ELSE IF consumed < Len(buffer) /\ ~dropUnconsumed
             THEN IF consumed > 0
                  THEN [w1 EXCEPT !.c.stashBuffer = WriteAt(@, 0, SeqDrop(buffer, consumed)),
                                  !.c.stashUsed = remain,
                                  !.c.stashByteStart = @ + consumed,
                                  !.ret = 0]
                  ELSE [w1 EXCEPT !.ret = 0]
             ELSE [w1 EXCEPT !.c.stashUsed = 0, !.c.stashByteStart = 0, !.ret = remain]
    ELSE [w EXCEPT !.ret = 0]

CreateLoader(w) ==
    LET ld == NewLoader
    IN  [w EXCEPT !.ld = ld,
                  !.c.enableStash = IF ld.needStash = FALSE THEN FALSE ELSE @]

InternalSeek(w, bytes, dropUnconsumed) ==
    LET w1 == IF LoaderIsWorking(w.ld) THEN [w EXCEPT !.ld = LoaderAbort(@)] ELSE w
        w2 == FlushStashBuffer(w1, dropUnconsumed)
        w3 == [w2 EXCEPT !.ld = LoaderDestroy(@),
                         !.c.currentRange = [from |-> bytes, to |-> -1],
                         !.sp = SamplerReset(@),
                         !.c.stashSize = w2.c.stashInitialSize]
        w4 == CreateLoader(w3)
        w5 == [w4 EXCEPT !.ld = LoaderOpen(@, bytes)]
    IN  Emit(w5, Event("seeked", ""))

OnContentLengthKnown(w, contentLength) ==
    IF contentLength # 0 /\ w.c.fullRequestFlag
    THEN [w EXCEPT !.c.totalLength = contentLength, !.c.fullRequestFlag = FALSE]
    ELSE w

\* _onLoaderComplete keeping what the consumer did not accept.
OnLoaderCompleteKeeping(w) ==
    Emit(FlushStashBuffer(w, FALSE), Event("complete", ""))

OnLoaderComplete(w) ==
    Emit(FlushStashBuffer(w, TRUE), Event("complete", ""))

\* Lines 609-616 with the speed changed check left out.
AdjustForSpeedAlways(c, num, den) ==
    IF num # 0
    THEN LET normalized == NormalizeSpeed(speedNormalizeList, num, den)
         IN  AdjustStashSize([c EXCEPT !.speedNormalized = normalized], normalized)
    ELSE c

\* Lines 609-616: resize the stash when the normalized speed changed.  The
\* speed is num / den KiB/s.
AdjustForSpeed(c, num, den) ==
    IF num # 0
    THEN LET normalized == NormalizeSpeed(speedNormalizeList, num, den)
         IN  IF c.speedNormalized # normalized
             THEN AdjustStashSize([c EXCEPT !.speedNormalized = normalized], normalized)
             ELSE c
    ELSE c

\* Lines 604-616: sample the chunk, then resize the stash for the speed.
SampleAndAdjust(w, chunkLen) ==
    LET sp1 == AddBytes(w.sp, chunkLen)
        KBps == LastSecondKBps(sp1)
    IN  [w EXCEPT !.sp = KBps.sp, !.c = AdjustForSpeed(w.c, KBps.num, KBps.den)]

\* The stash-disabled branch without the advance of stashByteStart.
ArrivalStashDisabledNoAdvance(w, chunk, byteStart) ==
    IF w.c.stashUsed = 0
    THEN LET w1 == DispatchChunks(w, chunk, byteStart)
             consumed == w1.ret
             remain == Len(chunk) - consumed
         IN  IF consumed < Len(chunk)
             THEN LET c1 == IF remain > w1.c.bufferSize
                            THEN ExpandBuffer(w1.c, remain) ELSE w1.c
                  IN  [w1 EXCEPT !.c = [c1 EXCEPT
                          !.stashBuffer = WriteAt(@, 0, SeqDrop(chunk, consumed)),
                          !.stashUsed = @ + remain,
                          !.stashByteStart = byteStart + consumed]]
             ELSE w1
    ELSE LET c1 == IF w.c.stashUsed + Len(chunk) > w.c.bufferSize
                   THEN ExpandBuffer(w.c, w.c.stashUsed + Len(chunk)) ELSE w.c
             c2 == [c1 EXCEPT !.stashBuffer = WriteAt(@, c1.stashUsed, chunk),
                              !.stashUsed = @ + Len(chunk)]
             w1 == DispatchChunks([w EXCEPT !.c = c2],
                                  SubSeq(c2.stashBuffer, 1, c2.stashUsed),
                                  c2.stashByteStart)
             consumed == w1.ret
         IN  [w1 EXCEPT !.c.stashBuffer =
                            IF consumed < w1.c.stashUsed /\ consumed > 0
                            THEN SeqDrop(@, consumed) ELSE @,
                        !.c.stashUsed = @ - consumed]

\* Lines 618-668: stash disabled.
ArrivalStashDisabled(w, chunk, byteStart) ==
    IF w.c.stashUsed = 0
    THEN LET w1 == DispatchChunks(w, chunk, byteStart)
             consumed == w1.ret
             remain == Len(chunk) - consumed
         IN  IF consumed < Len(chunk)
             THEN LET c1 == IF remain > w1.c.bufferSize
                            THEN ExpandBuffer(w1.c, remain) ELSE w1.c
                  IN  [w1 EXCEPT !.c = [c1 EXCEPT
                          !.stashBuffer = WriteAt(@, 0, SeqDrop(chunk, consumed)),
                          !.stashUsed = @ + remain,
                          !.stashByteStart = byteStart + consumed]]
             ELSE w1
    ELSE LET c1 == IF w.c.stashUsed + Len(chunk) > w.c.bufferSize
                   THEN ExpandBuffer(w.c, w.c.stashUsed + Len(chunk)) ELSE w.c
             c2 == [c1 EXCEPT !.stashBuffer = WriteAt(@, c1.stashUsed, chunk),
                              !.stashUsed = @ + Len(chunk)]
             w1 == DispatchChunks([w EXCEPT !.c = c2],
                                  SubSeq(c2.stashBuffer, 1, c2.stashUsed),
                                  c2.stashByteStart)
             consumed == w1.ret
         IN  [w1 EXCEPT !.c.stashBuffer =
                            IF consumed < w1.c.stashUsed /\ consumed > 0
                            THEN SeqDrop(@, consumed) ELSE @,
                        !.c.stashUsed = @ - consumed,
                        !.c.stashByteStart = @ + consumed]

\* The test of line 677 leaving out the chunk that fills the stash exactly.
FitsStashStrictly(c, chunk) == c.stashUsed + Len(chunk) < c.stashSize

\* Line 677: the chunk fits the stash.
FitsStash(c, chunk) == c.stashUsed + Len(chunk) <= c.stashSize

\* Lines 669-745: stash enabled.
ArrivalStashEnabled(w, chunk, byteStart) ==
    LET w0 == IF w.c.stashUsed = 0 /\ w.c.stashByteStart = 0
              THEN [w EXCEPT !.c.stashByteStart = byteStart] ELSE w
    IN  IF FitsStash(w0.c, chunk)
        THEN [w0 EXCEPT !.c.stashBuffer = WriteAt(@, w0.c.stashUsed, chunk),
                        !.c.stashUsed = @ + Len(chunk)]
        ELSE IF w0.c.stashUsed > 0
        THEN LET buffer == SubSeq(w0.c.stashBuffer, 1, w0.c.stashUsed)
                 w1 == DispatchChunks(w0, buffer, w0.c.stashByteStart)
                 consumed == w1.ret
                 w2 == IF consumed < Len(buffer)
                       THEN IF consumed > 0
                            THEN [w1 EXCEPT
                                    !.c.stashBuffer = WriteAt(@, 0, SeqDrop(buffer, consumed)),
                                    !.c.stashUsed = Len(buffer) - consumed,
                                    !.c.stashByteStart = @ + consumed]
                            ELSE w1
                       ELSE [w1 EXCEPT !.c.stashUsed = 0,
                                       !.c.stashByteStart = @ + consumed]
                 c3 == IF w2.c.stashUsed + Len(chunk) > w2.c.bufferSize
                       THEN ExpandBuffer(w2.c, w2.c.stashUsed + Len(chunk)) ELSE w2.c
             IN  [w2 EXCEPT !.c = [c3 EXCEPT
                        !.stashBuffer = WriteAt(@, c3.stashUsed, chunk),
                        !.stashUsed = @ + Len(chunk)]]
        ELSE LET w1 == DispatchChunks(w0, chunk, byteStart)
                 consumed == w1.ret
                 remain == Len(chunk) - consumed
             IN  IF consumed < Len(chunk)
                 THEN LET c1 == IF remain > w1.c.bufferSize
                                THEN ExpandBuffer(w1.c, remain) ELSE w1.c
                      IN  [w1 EXCEPT !.c = [c1 EXCEPT
                              !.stashBuffer = WriteAt(@, 0, SeqDrop(chunk, consumed)),
                              !.stashUsed = @ + remain,
                              !.stashByteStart = byteStart + consumed]]
                 ELSE w1

\* Lines 586-745.  Without a consumer it throws IllegalStateException first.
OnLoaderChunkArrival(w, chunk, byteStart) ==
    IF ~w.hasOnData
    THEN [Emit(w, Event("thrown", "IllegalState")) EXCEPT !.thrown = TRUE]
    ELSE IF w.c.paused THEN w
    ELSE LET w1 == IF w.c.isEarlyEofReconnecting
                   THEN Emit([w EXCEPT !.c.isEarlyEofReconnecting = FALSE],
                             Event("recovered", ""))
                   ELSE w
             w2 == SampleAndAdjust(w1, Len(chunk))
         IN  IF ~w2.c.enableStash
             THEN ArrivalStashDisabled(w2, chunk, byteStart)
             ELSE ArrivalStashEnabled(w2, chunk, byteStart)

\* Lines 846-852: report to onError, or throw when it is not bound.
ReportError(w, type) ==
    IF w.hasOnError
    THEN Emit(w, Event("error", type))
    ELSE [Emit(w, Event("fatal", type)) EXCEPT !.thrown = TRUE]

\* _onLoaderError reconnecting at currentRange.to instead of currentRange.to + 1.
OnLoaderErrorOffByOne(w, type0) ==
    LET w1 == FlushStashBuffer(w, FALSE)
        reconnecting == w1.c.isEarlyEofReconnecting
        w2 == [w1 EXCEPT !.c.isEarlyEofReconnecting = FALSE]
        type == IF reconnecting THEN UNRECOVERABLE_EARLY_EOF ELSE type0
    IN  IF type = EARLY_EOF
        THEN IF ~cfg.isLive /\ w2.c.totalLength # Null /\ w2.c.totalLength # 0
             THEN LET nextFrom == w2.c.currentRange.to
                  IN  IF nextFrom < w2.c.totalLength
                      THEN InternalSeek([w2 EXCEPT !.c.isEarlyEofReconnecting = TRUE],
                                        nextFrom, FALSE)
                      ELSE w2
             ELSE ReportError(w2, UNRECOVERABLE_EARLY_EOF)
        ELSE ReportError(w2, type)

\* _onLoaderError flushing with dropUnconsumed = true.
OnLoaderErrorDropping(w, type0) ==
    LET w1 == FlushStashBuffer(w, TRUE)
        reconnecting == w1.c.isEarlyEofReconnecting
        w2 == [w1 EXCEPT !.c.isEarlyEofReconnecting = FALSE]
        type == IF reconnecting THEN UNRECOVERABLE_EARLY_EOF ELSE type0
    IN  IF type = EARLY_EOF
        THEN IF ~cfg.isLive /\ w2.c.totalLength # Null /\ w2.c.totalLength # 0
             THEN LET nextFrom == w2.c.currentRange.to + 1
                  IN  IF nextFrom < w2.c.totalLength
                      THEN InternalSeek([w2 EXCEPT !.c.isEarlyEofReconnecting = TRUE],
                                        nextFrom, FALSE)
                      ELSE w2
             ELSE ReportError(w2, UNRECOVERABLE_EARLY_EOF)
        ELSE ReportError(w2, type)

\* _onLoaderError passing on the kind of an error that arrives during a
\* reconnect.
OnLoaderErrorKeepingKind(w, type0) ==
    LET w1 == FlushStashBuffer(w, FALSE)
        w2 == [w1 EXCEPT !.c.isEarlyEofReconnecting = FALSE]
        type == type0
    IN  IF w1.thrown THEN w1
        ELSE IF type = EARLY_EOF
        THEN IF ~cfg.isLive /\ w2.c.totalLength # Null /\ w2.c.totalLength # 0
             THEN LET nextFrom == w2.c.currentRange.to + 1
                  IN  IF nextFrom < w2.c.totalLength
                      THEN InternalSeek([w2 EXCEPT !.c.isEarlyEofReconnecting = TRUE],
                                        nextFrom, FALSE)
                      ELSE w2
             ELSE ReportError(w2, UNRECOVERABLE_EARLY_EOF)
        ELSE ReportError(w2, type)

\* _onLoaderError, lines 802-853.
OnLoaderError(w, type0) ==
    LET w1 == FlushStashBuffer(w, FALSE)
        reconnecting == w1.c.isEarlyEofReconnecting
        w2 == [w1 EXCEPT !.c.isEarlyEofReconnecting = FALSE]
        type == IF reconnecting THEN UNRECOVERABLE_EARLY_EOF ELSE type0
    IN  IF w1.thrown THEN w1
        ELSE IF type = EARLY_EOF
        THEN IF ~cfg.isLive /\ w2.c.totalLength # Null /\ w2.c.totalLength # 0
             THEN LET nextFrom == w2.c.currentRange.to + 1
                  IN  IF nextFrom < w2.c.totalLength
                      THEN InternalSeek([w2 EXCEPT !.c.isEarlyEofReconnecting = TRUE],
                                        nextFrom, FALSE)
                      ELSE w2
             ELSE ReportError(w2, UNRECOVERABLE_EARLY_EOF)
        ELSE ReportError(w2, type)

(* ------------------------- IOController: API -------------------------- *)
IsWorking(w) == LoaderIsWorking(w.ld) /\ ~w.c.paused

ControllerOpen(w, optionalFrom) ==
    LET w1 == [w EXCEPT !.c.currentRange =
                            [from |-> IF optionalFrom # 0 THEN optionalFrom ELSE 0,
                             to |-> -1],
                        !.sp = SamplerReset(@),
                        !.c.fullRequestFlag = IF optionalFrom = 0 THEN TRUE ELSE @]
    IN  [w1 EXCEPT !.ld = LoaderOpen(@, w1.c.currentRange.from)]

\* abort() emptying the stash as pause() does.
ControllerAbortEmptying(w) ==
    LET w1 == [w EXCEPT !.ld = LoaderAbort(@), !.c.stashUsed = 0, !.c.stashByteStart = 0]
    IN  IF w1.c.paused
        THEN [w1 EXCEPT !.c.paused = FALSE, !.c.resumeFrom = 0]
        ELSE w1

ControllerAbort(w) ==
    LET w1 == [w EXCEPT !.ld = LoaderAbort(@)]
    IN  IF w1.c.paused
        THEN [w1 EXCEPT !.c.paused = FALSE, !.c.resumeFrom = 0]
        ELSE w1

ControllerPause(w) ==
    IF IsWorking(w)
    THEN LET w1 == [w EXCEPT !.ld = LoaderAbort(@)]
             w2 == IF w1.c.stashUsed # 0
                   THEN [w1 EXCEPT !.c.resumeFrom = w1.c.stashByteStart,
                                   !.c.currentRange.to = w1.c.stashByteStart - 1]
                   ELSE [w1 EXCEPT !.c.resumeFrom = w1.c.currentRange.to + 1]
         IN  [w2 EXCEPT !.c.stashUsed = 0, !.c.stashByteStart = 0, !.c.paused = TRUE]
    ELSE w

ControllerResume(w) ==
    IF w.c.paused
    THEN LET bytes == w.c.resumeFrom
         IN  InternalSeek([w EXCEPT !.c.paused = FALSE, !.c.resumeFrom = 0], bytes, TRUE)
    ELSE w

ControllerSeek(w, bytes) ==
    InternalSeek([w EXCEPT !.c.paused = FALSE, !.c.stashUsed = 0,
                           !.c.stashByteStart = 0],
                 bytes, TRUE)

(* ------------------ FetchStreamLoader: promise chain ------------------ *)
\* The loader calls back into the controller; cb lists the callbacks made.
Call(w, name) == [w EXCEPT !.cb = Append(@, name)]

\* An exception thrown by the controller's handler inside then() reaches the
\* chain's catch(), which sets kError and reports EXCEPTION to the handler
\* again: once from _pump's catch, and once more from open()'s catch when the
\* failing _pump is the one open() returned.
RECURSIVE Rethrow(_, _)
Rethrow(w, catches) ==
    IF w.thrown /\ catches > 0
    THEN Rethrow(OnLoaderError(Call([w EXCEPT !.thrown = FALSE, !.ld.status = kError],
                                    EXCEPTION),
                               EXCEPTION),
                 catches - 1)
    ELSE w

\* then((res) => ...) of open(), lines 997-1034, and its catch, 1035-1043.
FetchThen(w, resOk, lengthHeader) ==
    IF w.ld.requestAbort
    THEN [w EXCEPT !.ld.requestAbort = FALSE, !.ld.status = kIdle, !.ld.phase = "end"]
    ELSE IF resOk
    THEN LET w1 == [w EXCEPT !.ld.contentLength =
                                 IF lengthHeader # Null THEN lengthHeader ELSE @,
                             !.ld.phase = "read", !.ld.firstPump = TRUE]
         IN  IF lengthHeader # Null /\ lengthHeader # 0
             THEN OnContentLengthKnown(Call(w1, "contentLength"), lengthHeader)
             ELSE w1
    ELSE Rethrow(OnLoaderError(Call([w EXCEPT !.ld.status = kError, !.ld.phase = "end"],
                                    HTTP_STATUS_CODE_INVALID),
                               HTTP_STATUS_CODE_INVALID),
                 1)

FetchCatch(w) ==
    OnLoaderError(Call([w EXCEPT !.ld.status = kError, !.ld.phase = "end"], EXCEPTION),
                  EXCEPTION)

\* Number of catch() handlers behind the pending read: _pump's own and, for
\* the first _pump, open()'s.
Catches(ld) == IF ld.firstPump THEN 2 ELSE 1

\* _pump, result.done = false, lines 1081-1105.
PumpChunk(w, chunk) ==
    IF w.ld.requestAbort
    THEN [w EXCEPT !.ld.requestAbort = FALSE, !.ld.status = kComplete, !.ld.phase = "end"]
    ELSE LET byteStart == w.ld.rangeFrom + w.ld.receivedLength
             w1 == [w EXCEPT !.ld.status = kBuffering,
                             !.ld.receivedLength = @ + Len(chunk),
                             !.ld.firstPump = FALSE,
                             !.ld.pos = @ + Len(chunk),
                             !.ld.nextStart = byteStart + Len(chunk)]
             w2 == OnLoaderChunkArrival(Call(w1, "data"), chunk, byteStart)
         IN  IF w2.thrown
             THEN Rethrow([w2 EXCEPT !.ld.phase = "end"], Catches(w.ld))
             ELSE w2

\* _pump, result.done = true, lines 1058-1079.
PumpDone(w) ==
    LET catches == Catches(w.ld)
    IN  IF w.ld.contentLength # Null /\ w.ld.receivedLength < w.ld.contentLength
        THEN Rethrow(OnLoaderError(Call([w EXCEPT !.ld.status = kError, !.ld.phase = "end"],
                                        EARLY_EOF),
                                   EARLY_EOF),
                     catches)
        ELSE Rethrow(OnLoaderComplete(Call([w EXCEPT !.ld.status = kComplete,
                                                     !.ld.phase = "end"],
                                           "complete")),
                     catches)

\* _pump's catch for a rejected read, lines 1106-1134.
PumpCatch(w, networkError) ==
    LET type == IF networkError /\ (w.ld.contentLength = Null
                                    \/ w.ld.receivedLength < w.ld.contentLength)
                THEN EARLY_EOF ELSE EXCEPTION
    IN  Rethrow(OnLoaderError(Call([w EXCEPT !.ld.status = kError, !.ld.phase = "end"],
                                   type),
                              type),
                Catches(w.ld) - 1)

(* ------------------------ consumer-side observer ---------------------- *)
\* owed is the absolute offset of the first byte the consumer has not yet
\* accepted: the offset given to open()/seek(), plus everything it consumed.
\* expect is where the last dispatch said the next one starts (its byteStart
\* plus what was consumed), firstStart the byteStart of the first dispatch
\* since open()/seek().  recoverAt is the offset of an early-EOF reconnect
\* that left the stash empty, until the next dispatch or the next call of the
\* owner.  lastEnd is the offset of the last byte of the most recent dispatch
\* since construction.  contOK, chainOK and recoverOK speak of the last step
\* only.
NewObs(base, viaSeek) ==
    [base |-> base, viaSeek |-> viaSeek, owed |-> base, expect |-> Null,
     firstStart |-> Null, recoverAt |-> Null, lastEnd |-> Null, contOK |-> TRUE,
     chainOK |-> TRUE, recoverOK |-> TRUE]

\* The observer after open() or seek(): a new session, the same history.
NewSession(base, viaSeek, o) == [NewObs(base, viaSeek) EXCEPT !.lastEnd = o.lastEnd]

ObserveOne(o, e) ==
    IF e.t # "data" THEN o
    ELSE [o EXCEPT
            !.contOK = @ /\ SubSeq(e.bytes, 1, e.consumed) = ResourceBytes(o.owed, e.consumed),
            !.chainOK = @ /\ (o.expect # Null => e.start = o.expect),
            !.recoverOK = @ /\ (o.recoverAt # Null => e.start = o.recoverAt),
            !.recoverAt = Null,
            !.lastEnd = e.start + Len(e.bytes) - 1,
            !.owed = @ + e.consumed,
            !.expect = e.start + e.consumed,
            !.firstStart = IF @ = Null THEN e.start ELSE @]

RECURSIVE ObserveAll(_, _)
ObserveAll(o, events) ==
    IF events = <<>> THEN o
    ELSE ObserveAll(ObserveOne(o, Head(events)), Tail(events))

Observe(o, events) ==
    ObserveAll([o EXCEPT !.contOK = TRUE, !.chainOK = TRUE, !.recoverOK = TRUE], events)

\* The handler that ran on w reconnected after an EarlyEof (lines 823-828).
ReconnectedIn(w) ==
    /\ w.cb # <<>> /\ Head(w.cb) = EARLY_EOF
    /\ w.c.isEarlyEofReconnecting
    /\ \E i \in 1..Len(w.out) : w.out[i].t = "seeked"

\* A call of the owner (op is not a transport event) ends the wait for the
\* dispatch that follows a reconnect.
TransportOps == {"response", "badStatus", "fetchRejected", "chunk", "done", "readRejected"}

MarkReconnect(o, w, op) ==
    IF op \notin TransportOps THEN [o EXCEPT !.recoverAt = Null]
    ELSE IF ReconnectedIn(w) /\ w.c.stashUsed = 0
    THEN [o EXCEPT !.recoverAt = w.ld.rangeFrom]
    ELSE o

(* ------------------------------- steps -------------------------------- *)
Offset == 1
TickSteps == {500, 1000}
\* The consumer's possible answers to a dispatch of at most n bytes.
Answers(n) == 0..n
Offsets == {0, Offset}
SeekOffsets == {Offset}

\* onError and onDataArrival are writable properties of the controller: whether
\* each is bound when a transport event arrives is the owner's choice
\* (hasOnError, hasOnData).
WorldE(ans, hasOnError) ==
    [c |-> io, ld |-> loader, sp |-> sampler, out |-> <<>>, ans |-> ans,
     ok |-> TRUE, ret |-> 0, thrown |-> FALSE, cb |-> <<>>,
     hasOnError |-> hasOnError, hasOnData |-> TRUE]

World(ans) == WorldE(ans, TRUE)

NoAnswers == <<0, 0, 0>>

\* The state after a handler ran on w.  The consumer answers within [0, len];
\* the answers no dispatch asked for are 0.  Bytes beyond stashUsed are never
\* read again and are not kept.
Commit(w, op, arg, o) ==
    /\ w.ok
    /\ \A i \in 1..Len(w.ans) : w.ans[i] = 0
    /\ io' = [w.c EXCEPT !.stashBuffer = SubSeq(@, 1, w.c.stashUsed)]
    /\ loader' = w.ld
    /\ sampler' = w.sp
    /\ out' = w.out
    /\ obs' = MarkReconnect(Observe(o, w.out), w, op)
    /\ last' = [op |-> op, arg |-> arg, cb |-> w.cb, onError |-> w.hasOnError,
                onData |-> w.hasOnData]

\* open() may be called again once the loader's promise chain has ended.
Open(from) ==
    /\ loader.phase \in {"none", "end"}
    /\ ~budget.opened \/ budget.used < MaxDisturbances
    /\ Commit(ControllerOpen(World(NoAnswers), from), "open", from, NewSession(from, FALSE, obs))
    /\ budget' = [opened |-> TRUE, used |-> IF budget.opened THEN budget.used + 1
                                           ELSE budget.used]
    /\ UNCHANGED <<cfg, now>>

\* pause() returns without any effect unless the controller is working.
Pause ==
    /\ budget.opened /\ budget.used < MaxDisturbances
    /\ IsWorking(World(NoAnswers))
    /\ Commit(ControllerPause(World(NoAnswers)), "pause", 0, obs)
    /\ budget' = [budget EXCEPT !.used = @ + 1]
    /\ UNCHANGED <<cfg, now>>

\* resume() returns without any effect unless the controller is paused.
Resume ==
    /\ budget.opened /\ io.paused
    /\ \E a \in Answers(io.stashUsed) :
          Commit(ControllerResume(World(<<a, 0, 0>>)), "resume", 0, obs)
    /\ UNCHANGED <<cfg, now, budget>>

Seek(bytes) ==
    /\ budget.opened /\ budget.used < MaxDisturbances
    /\ Commit(ControllerSeek(World(NoAnswers), bytes), "seek", bytes,
              NewSession(bytes, TRUE, obs))
    /\ budget' = [budget EXCEPT !.used = @ + 1]
    /\ UNCHANGED <<cfg, now>>

Abort ==
    /\ budget.opened /\ budget.used < MaxDisturbances
    /\ Commit(ControllerAbort(World(NoAnswers)), "abort", IF io.paused THEN 1 ELSE 0, obs)
    /\ budget' = [budget EXCEPT !.used = @ + 1]
    /\ UNCHANGED <<cfg, now>>

Tick(d) ==
    /\ budget.opened /\ budget.used < MaxDisturbances
    /\ now' = now + d
    /\ budget' = [budget EXCEPT !.used = @ + 1]
    /\ last' = [op |-> "tick", arg |-> d, cb |-> <<>>, onError |-> TRUE, onData |-> TRUE]
    /\ out' = <<>>
    /\ obs' = [Observe(obs, <<>>) EXCEPT !.recoverAt = Null]
    /\ UNCHANGED <<cfg, io, loader, sampler>>

\* The server honours the requested range: the response of a request from
\* offset f carries the bytes [f, TotalLen) and, when it states a length,
\* Content-Length = TotalLen - f.
Remaining == TotalLen - (loader.rangeFrom + loader.pos)

FetchResolved(hasLength) ==
    /\ loader.phase = "fetch" /\ loader.rangeFrom < TotalLen
    /\ Commit(FetchThen(World(NoAnswers), TRUE,
                        IF hasLength THEN TotalLen - loader.rangeFrom ELSE Null),
              "response", 0, obs)
    /\ UNCHANGED <<cfg, now, budget>>

FetchBadStatus ==
    /\ loader.phase = "fetch"
    /\ loader.rangeFrom >= TotalLen \/ budget.used < MaxDisturbances
    /\ \E a \in Answers(io.stashUsed), b \in Answers(io.stashUsed), h \in BOOLEAN :
          Commit(FetchThen(WorldE(<<a, b, 0>>, h), FALSE, Null), "badStatus", 0, obs)
    /\ budget' = [budget EXCEPT !.used = IF loader.rangeFrom >= TotalLen THEN @ ELSE @ + 1]
    /\ UNCHANGED <<cfg, now>>

FetchRejected ==
    /\ loader.phase = "fetch" /\ budget.used < MaxDisturbances
    /\ \E a \in Answers(io.stashUsed), h \in BOOLEAN :
          Commit(FetchCatch(WorldE(<<a, 0, 0>>, h)), "fetchRejected", 0, obs)
    /\ budget' = [budget EXCEPT !.used = @ + 1]
    /\ UNCHANGED <<cfg, now>>

ReadChunk(len, hasOnData) ==
    /\ loader.phase = "read" /\ len <= Remaining
    /\ hasOnData \/ (budget.used < MaxDisturbances /\ ~loader.requestAbort)
    /\ \E a \in Answers(io.stashUsed + len) :
          Commit(PumpChunk([World(<<a, 0, 0>>) EXCEPT !.hasOnData = hasOnData],
                           ResourceBytes(loader.rangeFrom + loader.pos, len)),
                 "chunk", len, obs)
    /\ budget' = [budget EXCEPT !.used = IF hasOnData THEN @ ELSE @ + 1]
    /\ UNCHANGED <<cfg, now>>

ReadDone ==
    /\ loader.phase = "read"
    /\ Remaining = 0 \/ budget.used < MaxDisturbances
    /\ \E a \in Answers(io.stashUsed), b \in Answers(io.stashUsed),
          c \in Answers(io.stashUsed), h \in BOOLEAN :
          Commit(PumpDone(WorldE(<<a, b, c>>, h)), "done", 0, obs)
    /\ budget' = [budget EXCEPT !.used = IF Remaining = 0 THEN @ ELSE @ + 1]
    /\ UNCHANGED <<cfg, now>>

ReadRejected(networkError) ==
    /\ loader.phase = "read" /\ budget.used < MaxDisturbances
    /\ \E a \in Answers(io.stashUsed), b \in Answers(io.stashUsed), h \in BOOLEAN :
          Commit(PumpCatch(WorldE(<<a, b, 0>>, h), networkError), "readRejected",
                 IF networkError THEN 1 ELSE 0, obs)
    /\ budget' = [budget EXCEPT !.used = @ + 1]
    /\ UNCHANGED <<cfg, now>>

(* ---------------------------- construction ---------------------------- *)
SmallStash == 1
StartTime == 1000

NoRange == [from |-> Null, to |-> Null]

Configs ==
    [isLive : BOOLEAN, enableStashBuffer : BOOLEAN,
     stashInitialSize : {SmallStash}, filesize : {Null, TotalLen}]

\* IOController's constructor, lines 44-139, followed by _createLoader.
Constructed(config) ==
    LET initial == IF config.stashInitialSize # Null /\ config.stashInitialSize > 0
                   THEN config.stashInitialSize ELSE DefaultStashInitialSize
        ld == NewLoader
    IN  [stashInitialSize |-> initial, stashUsed |-> 0, stashSize |-> initial,
         bufferSize |-> InitialBufferSize, stashBuffer |-> <<>>, stashByteStart |-> 0,
         enableStash |-> IF config.enableStashBuffer = FALSE \/ ld.needStash = FALSE
                         THEN FALSE ELSE TRUE,
         totalLength |-> config.filesize, fullRequestFlag |-> FALSE,
         currentRange |-> NoRange, speedNormalized |-> 0,
         isEarlyEofReconnecting |-> FALSE, paused |-> FALSE, resumeFrom |-> 0]

Init ==
    /\ cfg \in Configs
    /\ io = Constructed(cfg)
    /\ loader = NewLoader
    /\ sampler = NewSampler
    /\ now = StartTime
    /\ out = <<>>
    /\ obs = NewObs(0, FALSE)
    /\ last = [op |-> "new", arg |-> 0, cb |-> <<>>, onError |-> TRUE, onData |-> TRUE]
    /\ budget = [opened |-> FALSE, used |-> 0]

Next ==
    \/ \E from \in Offsets : Open(from)
    \/ Pause
    \/ Resume
    \/ \E bytes \in SeekOffsets : Seek(bytes)
    \/ Abort
    \/ \E d \in TickSteps : Tick(d)
    \/ \E hasLength \in BOOLEAN : FetchResolved(hasLength)
    \/ FetchBadStatus
    \/ FetchRejected
    \/ \E len \in 1..MaxChunk, hasOnData \in BOOLEAN : ReadChunk(len, hasOnData)
    \/ ReadDone
    \/ \E networkError \in BOOLEAN : ReadRejected(networkError)

Spec == Init /\ [][Next]_vars

(* ------------------------- reading the last step ---------------------- *)
\* The dispatches, the error reports and the bytes consumed among events.
DataEvents(events) == SelectSeq(events, LAMBDA e : e.t = "data")
Reports(events) == SelectSeq(events, LAMBDA e : e.t \in {"error", "fatal"})
Seeked(events) == SelectSeq(events, LAMBDA e : e.t = "seeked")

RECURSIVE ConsumedIn(_)
ConsumedIn(events) ==
    IF events = <<>> THEN 0 ELSE Head(events).consumed + ConsumedIn(Tail(events))

ErrorKinds ==
    {EXCEPTION, HTTP_STATUS_CODE_INVALID, CONNECTING_TIMEOUT, EARLY_EOF,
     UNRECOVERABLE_EARLY_EOF}

\* This step, the loader called _onLoaderError, first with kind EarlyEof.
EarlyEofReported == last'.cb # <<>> /\ Head(last'.cb) = EARLY_EOF

\* This step, the loader called _onLoaderError.
ErrorReported == last'.cb # <<>> /\ Head(last'.cb) \in ErrorKinds

\* currentRange.to + 1 as _onLoaderError reads it, after its flush: a flush of
\* a non-empty stash dispatches it and moves currentRange.to to its last byte.
NextFromAfterFlush ==
    IF io.stashUsed > 0 THEN io.stashByteStart + io.stashUsed
    ELSE io.currentRange.to + 1

TotalLengthKnown == io.totalLength # Null /\ io.totalLength # 0

\* This step left in the stash exactly the bytes the consumer did not take.
KeptUnconsumed ==
    LET consumed == ConsumedIn(DataEvents(out'))
    IN  /\ io'.stashUsed = io.stashUsed - consumed
        /\ io'.stashBuffer = SeqDrop(io.stashBuffer, consumed)
        /\ io'.stashUsed > 0 => io'.stashByteStart = io.stashByteStart + consumed

\* This step destroyed the loader and opened a fresh one at nextFrom, with the
\* early-EOF flag set and nothing reported to onError.
Reconnected(nextFrom) ==
    /\ io'.isEarlyEofReconnecting
    /\ io'.currentRange = [from |-> nextFrom, to |-> -1]
    /\ loader'.rangeFrom = nextFrom /\ loader'.phase = "fetch"
    /\ loader'.status = kConnecting /\ loader'.receivedLength = 0
    /\ ~loader'.requestAbort
    /\ Len(Seeked(out')) = 1
    /\ Reports(out') = <<>>

(* -------------------------------- C1 ---------------------------------- *)
\* C1: in a session without a user seek(), the bytes the consumer accepts at
\* each dispatch are the resource bytes that follow the ones it accepted
\* before, starting at the offset given to open(): no gap, no overlap.
ByteContinuity == ~obs.viaSeek => obs.contOK

(* -------------------------------- C2 ---------------------------------- *)
\* C2: stash invariant I2: whenever the stash is not empty, its content is the
\* resource bytes [stashByteStart, stashByteStart + stashUsed).
StashInvariantI2 ==
    io.stashUsed > 0 => io.stashBuffer = ResourceBytes(io.stashByteStart, io.stashUsed)

(* -------------------------------- C3 ---------------------------------- *)
\* C3: consumption accounting: a dispatch that follows, with no seek() in
\* between, a dispatch made at byteStart b that consumed c bytes is made at
\* byteStart b + c.
ConsumptionAccounting == obs.chainOK

(* -------------------------------- C4 ---------------------------------- *)
\* C4: pause() then resume() re-opens the loader at the offset of the first
\* byte the consumer has not accepted yet, so that the consumer receives what
\* it would have received without the pause.
ResumeAtOwed ==
    last.op = "resume" =>
        /\ loader.phase = "fetch" /\ loader.status = kConnecting
        /\ loader.rangeFrom = obs.owed

(* -------------------------------- C5 ---------------------------------- *)
\* C5: after seek(n) the next dispatch has byteStart = n, and seek() itself
\* dispatches nothing.
SeekCorrectness ==
    /\ last.op = "seek" => DataEvents(out) = <<>>
    /\ (obs.viaSeek /\ obs.firstStart # Null) => obs.firstStart = obs.base

(* -------------------------------- C6 ---------------------------------- *)
\* C6: I5: while paused, nothing is dispatched and resumeFrom is the offset of
\* the first byte the consumer has not accepted yet.
PausedI5 ==
    io.paused => (DataEvents(out) = <<>> /\ io.resumeFrom = obs.owed)

(* -------------------------------- C7 ---------------------------------- *)
\* C7: once abort() was called on the loader instance, the controller gets
\* no further callback from it.
NoCallbackAfterAbort == [][loader.requestAbort => last'.cb = <<>>]_vars

(* -------------------------------- C8 ---------------------------------- *)
\* C8, as stated: when the loader reports EarlyEof, the stream is not live,
\* the total length is known and currentRange.to + 1 < totalLength, the
\* controller reconnects at currentRange.to + 1 with the early-EOF flag set,
\* keeps the unconsumed bytes in the stash and does not call onError.
RecoverableEarlyEofAsStated ==
    [][(/\ EarlyEofReported
        /\ ~cfg.isLive /\ TotalLengthKnown
        /\ NextFromAfterFlush < io.totalLength)
       => (Reconnected(NextFromAfterFlush) /\ KeptUnconsumed)]_vars

\* C8, amended: the same, provided the controller is not already reconnecting
\* after an earlier EarlyEof when the loader reports this one.
RecoverableEarlyEof ==
    [][(/\ EarlyEofReported
        /\ ~io.isEarlyEofReconnecting
        /\ ~cfg.isLive /\ TotalLengthKnown
        /\ NextFromAfterFlush < io.totalLength)
       => (Reconnected(NextFromAfterFlush) /\ KeptUnconsumed)]_vars

\* A reconnect after an EarlyEof that left unconsumed bytes in the stash.
RecoverableEarlyEofWitness ==
    /\ last.cb = <<EARLY_EOF>>
    /\ io.isEarlyEofReconnecting /\ loader.phase = "fetch"
    /\ loader.rangeFrom > 0
    /\ io.stashUsed > 0
    /\ DataEvents(out) # <<>>

(* -------------------------------- C9 ---------------------------------- *)
\* C9: when the loader reports EarlyEof and the reconnect condition does not
\* hold (live stream, or total length unknown, or currentRange.to + 1 >=
\* totalLength), the controller does not reconnect and every call of the
\* handler reports UnrecoverableEarlyEof once, to onError or as the fatal
\* IOException: the error is not swallowed.
EarlyEofEscalation ==
    [][(/\ EarlyEofReported
        /\ \/ cfg.isLive
           \/ ~TotalLengthKnown
           \/ NextFromAfterFlush >= io.totalLength)
       => (/\ Seeked(out') = <<>>
           /\ Reports(out') # <<>>
           /\ Head(Reports(out')).kind = UNRECOVERABLE_EARLY_EOF
           /\ last'.onError => Len(Reports(out')) = 1)]_vars

(* -------------------------------- C10 --------------------------------- *)
\* The kind the i-th call of _onLoaderError of this step ends up with: a call
\* made while reconnecting, and an EarlyEof that is not reconnected, become
\* UnrecoverableEarlyEof.
EffectiveKind(i) ==
    IF i = 1 /\ (io.isEarlyEofReconnecting \/ last'.cb[1] = EARLY_EOF)
    THEN UNRECOVERABLE_EARLY_EOF
    ELSE last'.cb[i]

\* The loader reported an error that the handler treats as one of
\* UnrecoverableEarlyEof, ConnectingTimeout, HttpStatusCodeInvalid, Exception.
TerminalErrorReported ==
    /\ ErrorReported
    /\ \/ Head(last'.cb) # EARLY_EOF
       \/ io.isEarlyEofReconnecting
       \/ cfg.isLive
       \/ ~TotalLengthKnown

\* C10: for an error of kind UnrecoverableEarlyEof, ConnectingTimeout,
\* HttpStatusCodeInvalid or Exception the controller flushes the stash keeping
\* the unconsumed bytes, then calls onError exactly once with that kind, or
\* raises the fatal IOException when onError is not bound (once per call of
\* the handler), and does not reconnect.
TerminalErrorHandling ==
    [][TerminalErrorReported
       => LET reports == Reports(out')
          IN  /\ KeptUnconsumed
              /\ Len(reports) = Len(last'.cb)
              /\ \A i \in 1..Len(reports) :
                    /\ reports[i].kind = EffectiveKind(i)
                    /\ reports[i].t = IF last'.onError THEN "error" ELSE "fatal"
              /\ last'.onError =>
                    /\ Len(reports) = 1
                    /\ out'[Len(out')].t = "error"
                    /\ Len(DataEvents(out')) = IF io.stashUsed > 0 THEN 1 ELSE 0
              /\ Seeked(out') = <<>>
              /\ ~io'.isEarlyEofReconnecting
              /\ loader'.phase = "end" /\ loader'.status = kError]_vars

\* onError was called after a flush that left unconsumed bytes in the stash.
TerminalErrorHandlingWitness ==
    /\ last.cb # <<>> /\ Head(last.cb) \in {EXCEPTION, HTTP_STATUS_CODE_INVALID}
    /\ last.onError
    /\ Len(Reports(out)) = 1 /\ Head(Reports(out)).t = "error"
    /\ DataEvents(out) # <<>>
    /\ Head(DataEvents(out)).consumed < Len(Head(DataEvents(out)).bytes)
    /\ io.stashUsed > 0

(* -------------------------------- C11 --------------------------------- *)
Recovered(events) == SelectSeq(events, LAMBDA e : e.t = "recovered")

\* This step, the controller accepted a chunk from its loader.
ChunkAccepted == last'.cb = <<"data">> /\ ~io.paused

\* C11: the first chunk accepted after an early-EOF reconnect clears the
\* early-EOF flag and fires onRecoveredEarlyEof exactly once, before the chunk
\* is stashed or dispatched; no other step fires it; and the dispatch that
\* follows a reconnect which left the stash empty starts at the reconnect
\* offset.
RecoveredEarlyEof ==
    [][/\ (ChunkAccepted /\ io.isEarlyEofReconnecting)
          => (/\ ~io'.isEarlyEofReconnecting
              /\ Len(Recovered(out')) = 1
              /\ out'[1].t = "recovered")
       /\ ~(ChunkAccepted /\ io.isEarlyEofReconnecting) => Recovered(out') = <<>>
       /\ obs'.recoverOK]_vars

\* The parts of C11 about the flag and the callback alone.
RecoveredFiredOnce ==
    [][/\ (ChunkAccepted /\ io.isEarlyEofReconnecting)
          => (/\ ~io'.isEarlyEofReconnecting
              /\ Len(Recovered(out')) = 1
              /\ out'[1].t = "recovered")
       /\ ~(ChunkAccepted /\ io.isEarlyEofReconnecting) => Recovered(out') = <<>>]_vars

(* -------------------------------- C12 --------------------------------- *)
\* The last step opened a loader: open(), seek(), resume() or a reconnect.
LoaderJustOpened ==
    \/ last.op \in {"open", "seek", "resume"}
    \/ last.cb # <<>> /\ Head(last.cb) = EARLY_EOF /\ Seeked(out) # <<>>

\* C12: the loader instance that open(), seek() or a reconnect opens is a
\* fresh one: open() was never called on it before, it received nothing and
\* no abort was requested on it.
FreshLoaderOpened ==
    LoaderJustOpened =>
        /\ loader.opens = 1
        /\ loader.receivedLength = 0
        /\ ~loader.requestAbort

(* -------------------------------- C13 --------------------------------- *)
\* C13, as stated: once something was dispatched, currentRange.to is the
\* offset of the last byte of the most recently dispatched chunk.
CurrentRangeToAsStated ==
    obs.lastEnd # Null => io.currentRange.to = obs.lastEnd

\* The calls of _dispatchChunks, those that failed for want of a bound
\* onDataArrival included.
Dispatches(events) ==
    SelectSeq(events, LAMBDA e : e.t = "data" \/ (e.t = "thrown" /\ e.kind = "TypeError"))

\* The offset of the last byte of the last dispatch of this step.
LastDispatchEnd ==
    LET d == Dispatches(out')
    IN  d[Len(d)].start + Len(d[Len(d)].bytes) - 1

\* This step ran _internalSeek or open(), which start a new range.
RangeRestarted == Seeked(out') # <<>> \/ last'.op = "open"

\* C13, amended: right after a dispatch, one that fails because onDataArrival
\* is not bound included, currentRange.to is the offset of the last byte of
\* the dispatched chunk; otherwise it changes only when a new
\* range starts (open, seek, resume, reconnect: -1) and in pause() with a
\* non-empty stash (stashByteStart - 1).
CurrentRangeTo ==
    [][IF RangeRestarted THEN io'.currentRange.to = -1
       ELSE IF Dispatches(out') # <<>> THEN io'.currentRange.to = LastDispatchEnd
       ELSE IF last'.op = "pause" /\ io.stashUsed # 0
            THEN io'.currentRange.to = io.stashByteStart - 1
       ELSE io'.currentRange.to = io.currentRange.to]_vars

\* A dispatch of more than one byte, not at offset 0, has just set
\* currentRange.to.
CurrentRangeToWitness ==
    /\ DataEvents(out) # <<>> /\ Seeked(out) = <<>>
    /\ Head(DataEvents(out)).start > 0
    /\ Len(Head(DataEvents(out)).bytes) > 1
    /\ io.currentRange.to = obs.lastEnd

(* -------------------------------- C20 --------------------------------- *)
\* The status machine: the transitions of one loader instance.
StatusTransitions ==
    {<<kIdle, kConnecting>>, <<kConnecting, kBuffering>>, <<kConnecting, kError>>,
     <<kBuffering, kBuffering>>, <<kBuffering, kComplete>>, <<kBuffering, kError>>,
     <<kIdle, kIdle>>, <<kConnecting, kIdle>>, <<kBuffering, kIdle>>,
     <<kComplete, kIdle>>, <<kError, kIdle>>}

\* This step, abort() was called on the loader while it was working.
AbortedWhileWorking ==
    last'.op \in {"pause", "abort"} /\ LoaderIsWorking(loader)

\* C20: abort() on a working fetch loader moves its status to Idle, so that
\* isWorking() is false afterwards; and the status of a loader instance
\* changes only along the transitions of the status machine.
AbortTransitions ==
    [][/\ AbortedWhileWorking
          => (loader'.status = kIdle /\ ~LoaderIsWorking(loader'))
       /\ (Seeked(out') = <<>> /\ loader'.status # loader.status)
          => <<loader.status, loader'.status>> \in StatusTransitions]_vars

(* ------------------- the stash sizes on their own --------------------- *)
\* The methods that set stashSize and bufferSize, called with speeds and sizes
\* of the magnitude they have in use: _adjustStashSize as chunk arrival calls
\* it (lines 609-616), _expandBuffer as the stash writes call it (lines
\* 631, 647, 715, 733) and the reset of _internalSeek (line 450).
BigStash == InitialBufferSize + MiB

SizeConfigs ==
    [isLive : BOOLEAN, enableStashBuffer : {TRUE},
     stashInitialSize : {Null, SmallStash, BigStash}, filesize : {Null}]

Ladder == {speedNormalizeList[i] : i \in 1..Len(speedNormalizeList)}

\* Speeds in KiB/s as num / den: around every ladder value, below the ladder
\* and above it, whole and halves.
Speeds ==
    {[num |-> v + d, den |-> 1] : v \in Ladder, d \in {-1, 0, 1}}
    \cup {[num |-> 2 * v + d, den |-> 2] : v \in Ladder, d \in {-1, 1}}
    \cup {[num |-> 1, den |-> 2], [num |-> 5000, den |-> 1]}

ExpectedSizes == {1, InitialBufferSize + 1, 6 * MiB, 12 * MiB}

InitSizes ==
    /\ cfg \in SizeConfigs
    /\ io = Constructed(cfg)
    /\ loader = NewLoader
    /\ sampler = NewSampler
    /\ now = StartTime
    /\ out = <<>>
    /\ obs = NewObs(0, FALSE)
    /\ last = [op |-> "new", arg |-> 0, cb |-> <<>>, onError |-> TRUE, onData |-> TRUE]
    /\ budget = [opened |-> FALSE, used |-> 0]

SpeedSampled(speed) ==
    /\ io' = AdjustForSpeed(io, speed.num, speed.den)
    /\ last' = [op |-> "speed", arg |-> speed, cb |-> <<>>, onError |-> TRUE, onData |-> TRUE]
    /\ UNCHANGED <<cfg, loader, sampler, now, out, obs, budget>>

StashWrite(expectedBytes) ==
    /\ io' = IF expectedBytes > io.bufferSize THEN ExpandBuffer(io, expectedBytes) ELSE io
    /\ last' = [op |-> "write", arg |-> expectedBytes, cb |-> <<>>, onError |-> TRUE, onData |-> TRUE]
    /\ UNCHANGED <<cfg, loader, sampler, now, out, obs, budget>>

SeekReset ==
    /\ io' = [io EXCEPT !.stashSize = io.stashInitialSize]
    /\ last' = [op |-> "seekReset", arg |-> 0, cb |-> <<>>, onError |-> TRUE, onData |-> TRUE]
    /\ UNCHANGED <<cfg, loader, sampler, now, out, obs, budget>>

NextSizes ==
    \/ \E speed \in Speeds : SpeedSampled(speed)
    \/ \E expectedBytes \in ExpectedSizes : StashWrite(expectedBytes)
    \/ SeekReset

SpecSizes == InitSizes /\ [][NextSizes]_vars

(* -------------------------------- C14 --------------------------------- *)
\* C14: for every configured stashInitialSize > 0 the stash stays inside the
\* buffer: 0 <= stashUsed <= bufferSize and stashSize <= bufferSize.
BufferBounds ==
    /\ 0 <= io.stashUsed /\ io.stashUsed <= io.bufferSize
    /\ io.stashSize <= io.bufferSize

(* -------------------------------- C15 --------------------------------- *)
\* C15: bufferSize never decreases.
BufferNeverShrinks == [][io'.bufferSize >= io.bufferSize]_vars

\* The buffer has grown, and the stash size was then reset by a seek.
BufferNeverShrinksWitness ==
    /\ last.op = "seekReset"
    /\ io.bufferSize > InitialBufferSize
    /\ io.stashSize + MiB < io.bufferSize

(* -------------------------------- C16 --------------------------------- *)
\* C16, as stated: stashSize decreases only in a seek(), resume() or
\* reconnect.
StashShrinksOnlyOnSeek ==
    [][last'.op # "seekReset" => io'.stashSize >= io.stashSize]_vars

\* The stash size in KiB that the spec gives for a ladder value.
LadderStashKB(isLive, normalized) ==
    IF isLive THEN normalized
    ELSE CASE normalized = 64 -> 64    [] normalized = 128 -> 128
           [] normalized = 256 -> 256  [] normalized = 384 -> 384
           [] normalized = 512 -> 768  [] normalized = 768 -> 1152
           [] normalized = 1024 -> 1536 [] normalized = 1536 -> 3072
           [] normalized = 2048 -> 4096 [] normalized = 3072 -> 6144
           [] normalized = 4096 -> 8192

\* C16, amended: stashSize changes only in a seek(), resume() or reconnect,
\* which reset it to the initial size, and in a chunk arrival whose normalized
\* speed differs from the previous one, which sets it to the size for the new
\* speed, larger or smaller.
StashSizeChanges ==
    [][io'.stashSize # io.stashSize
       => \/ last'.op = "seekReset" /\ io'.stashSize = io.stashInitialSize
          \/ /\ last'.op = "speed"
             /\ io'.speedNormalized # io.speedNormalized
             /\ io'.stashSize = LadderStashKB(cfg.isLive, io'.speedNormalized) * 1024]_vars

\* A chunk arrival at a new speed has made the stash smaller than it was
\* configured.
StashSizeChangesWitness ==
    /\ last.op = "speed"
    /\ io.stashSize < io.stashInitialSize
    /\ io.stashSize = io.speedNormalized * 1024

(* -------------------------------- C17 --------------------------------- *)
\* C17: whenever _adjustStashSize grows the buffer, bufferSize = stashSize +
\* 1 MiB afterwards.
ResizeExact ==
    [][(last'.op = "speed" /\ io'.bufferSize > io.bufferSize)
       => io'.bufferSize = io'.stashSize + MiB]_vars

(* -------------------------------- C18 --------------------------------- *)
\* C18: _adjustStashSize sets stashSize to stashSizeKB * 1024, stashSizeKB
\* being the normalized speed for live streams and, for on-demand streams, the
\* normalized speed below 512, 1.5 times it from 512 to 1024 and twice it
\* above, capped at 8192.
StashSizeForSpeed ==
    [][(last'.op = "speed" /\ io'.speedNormalized # io.speedNormalized)
       => /\ io'.stashSize = LadderStashKB(cfg.isLive, io'.speedNormalized) * 1024
          /\ io'.stashSize <= MaxStashSizeKB * 1024]_vars

\* An on-demand stream at 1024 KiB/s: the upper end of the 1.5 band.
StashSizeForSpeedWitness ==
    /\ last.op = "speed" /\ ~cfg.isLive
    /\ io.speedNormalized = 1024
    /\ io.stashSize = 1536 * 1024

(* -------------------------------- C19 --------------------------------- *)
\* The greatest ladder value <= num / den, the least one when there is none.
GreatestLadder(num, den) ==
    LET below == {v \in Ladder : v * den <= num}
    IN  IF below = {} THEN CHOOSE v \in Ladder : \A u \in Ladder : v <= u
        ELSE CHOOSE v \in below : \A u \in below : u <= v

\* C19: for every speed > 0 the normalization gives the greatest ladder value
\* <= the speed, 64 below the ladder and 4096 above it, and always a ladder
\* value.
NormalizationLadder ==
    [][last'.op = "speed"
       => /\ NormalizeSpeed(speedNormalizeList, last'.arg.num, last'.arg.den)
                = GreatestLadder(last'.arg.num, last'.arg.den)
          /\ io'.speedNormalized = GreatestLadder(last'.arg.num, last'.arg.den)
          /\ io'.speedNormalized \in Ladder]_vars

\* 383 KiB/s was normalized to 256.
NormalizationLadderWitness ==
    /\ last.op = "speed"
    /\ last.arg = [num |-> 383, den |-> 1]
    /\ io.speedNormalized = 256

(* -------------------------------- C21 --------------------------------- *)
Completed(events) == SelectSeq(events, LAMBDA e : e.t = "complete")

LoaderCompleted == last'.cb # <<>> /\ Head(last'.cb) = "complete"

\* C21: on loader completion a non-empty stash is dispatched exactly once, at
\* stashByteStart, before onComplete; the stash is then empty whatever the
\* consumer accepted; onComplete is invoked exactly once.  When nothing has
\* disturbed the session and every chunk went into the stash, that dispatch is
\* the session's only one.
FlushOnComplete ==
    [][LoaderCompleted
       => /\ Len(Completed(out')) = 1
          /\ out'[Len(out')].t = "complete"
          /\ io'.stashUsed = 0
          /\ IF io.stashUsed > 0
             THEN /\ Len(DataEvents(out')) = 1
                  /\ out'[1].t = "data"
                  /\ out'[1].start = io.stashByteStart
                  /\ out'[1].bytes = SubSeq(io.stashBuffer, 1, io.stashUsed)
             ELSE DataEvents(out') = <<>>
          /\ (io.enableStash /\ budget.used = 0 /\ loader.receivedLength <= io.stashSize)
                => obs.firstStart = Null]_vars

\* A completion flushed a stash of which the consumer accepted nothing, in a
\* session that had made no dispatch before.
FlushOnCompleteWitness ==
    /\ last.op = "done" /\ last.cb = <<"complete">>
    /\ Len(out) = 2 /\ out[1].t = "data" /\ out[1].consumed = 0
    /\ obs.firstStart = out[1].start
    /\ obs.owed = obs.base
    /\ io.stashUsed = 0

(* -------------------------------- C23 --------------------------------- *)
ArrivedWithoutConsumer ==
    last'.cb # <<>> /\ Head(last'.cb) = "data" /\ ~last'.onData

\* C23: a chunk that arrives while onDataArrival is not bound makes the
\* controller fail with IllegalState, paused or not, and leaves the stash,
\* currentRange, the speed sampler and isEarlyEofReconnecting as they were.
NoConsumerIllegalState ==
    [][ArrivedWithoutConsumer
       => /\ \E i \in 1..Len(out') : out'[i].t = "thrown" /\ out'[i].kind = "IllegalState"
          /\ io'.stashUsed = io.stashUsed
          /\ io'.stashByteStart = io.stashByteStart
          /\ io'.stashBuffer = io.stashBuffer
          /\ io'.currentRange = io.currentRange
          /\ io'.isEarlyEofReconnecting = io.isEarlyEofReconnecting
          /\ sampler' = sampler]_vars

(* -------------------------------- C24 --------------------------------- *)
\* C24: abort() aborts the loader; when the controller was paused it clears
\* paused and sets resumeFrom = 0; the stash, currentRange and stashSize stay
\* as they were and nothing is dispatched.
AbortFrame ==
    [][last'.op = "abort"
       => /\ loader' = LoaderAbort(loader)
          /\ IF io.paused
             THEN ~io'.paused /\ io'.resumeFrom = 0
             ELSE io'.paused = io.paused /\ io'.resumeFrom = io.resumeFrom
          /\ io'.stashUsed = io.stashUsed
          /\ io'.stashByteStart = io.stashByteStart
          /\ io'.stashBuffer = io.stashBuffer
          /\ io'.currentRange = io.currentRange
          /\ io'.stashSize = io.stashSize
          /\ out' = <<>>]_vars

\* abort() was called with bytes in the stash, and it was called while paused.
AbortFrameWitness ==
    /\ last.op = "abort"
    /\ \/ io.stashUsed > 0 /\ loader.requestAbort
       \/ last.arg = 1 /\ ~io.paused /\ io.currentRange.to >= 0

(* -------------------------------- C22 --------------------------------- *)
\* nextStart is where the chunk events of a loader instance have got to: the
\* byteStart of its last chunk event plus that chunk's length.
ChunkDelivered == last'.cb # <<>> /\ Head(last'.cb) = "data"

\* byteStart of the chunk event of the step.
DeliveredStart == loader.rangeFrom + loader.receivedLength

\* C22: the chunk events of one loader instance are contiguous and in
\* increasing order: the first is at range.from, each next one where the
\* previous one ended, and receivedLength is the sum of the delivered lengths.
ChunkOrdering ==
    [][ChunkDelivered
       => /\ DeliveredStart = IF loader.nextStart = Null THEN loader.rangeFrom
                              ELSE loader.nextStart
          /\ loader.nextStart = Null => loader.receivedLength = 0
          /\ loader'.receivedLength = loader.receivedLength + last'.arg]_vars

(* -------------------------------- C27 --------------------------------- *)
StreamEndedShort ==
    /\ last'.op = "done"
    /\ loader.contentLength # Null /\ loader.receivedLength < loader.contentLength

\* The fetch loader's part of C27: when the stream ends with receivedLength below a known
\* contentLength, the loader reports EARLY_EOF to onError with status kError,
\* and neither completes nor calls onComplete.
FetchEarlyEof ==
    [][StreamEndedShort
       => /\ Head(last'.cb) = EARLY_EOF
          /\ \A i \in 1..Len(last'.cb) : last'.cb[i] # "complete"
          /\ Completed(out') = <<>>
          /\ Seeked(out') = <<>> => loader'.status = kError]_vars

(* ------------------------- MozChunkedLoader --------------------------- *)
\* The chunked-XHR loader on its own, lines 1173-1386 of part_000, driven by
\* the events of its XMLHttpRequest; out lists the callbacks it makes in a
\* step.  xhr is the request's position: "none", "sent", "headers" (readyState
\* 2 was reported), "failed" (error was fired, loadend is due) or "done".
\* total is the e.total of the response's progress events, 0 when the length
\* is not computable.
MozNewLoader ==
    [status |-> kIdle, needStash |-> TRUE, requestAbort |-> FALSE,
     contentLength |-> Null, receivedLength |-> 0, rangeFrom |-> Null,
     xhr |-> "none", total |-> 0, pos |-> 0]

MozLoaderOpen(ld, from) ==
    [ld EXCEPT !.rangeFrom = from, !.status = kConnecting, !.xhr = "sent", !.pos = 0]

\* _onReadyStateChange, readyState = 2.
MozOnReadyStateChange(ld, statusOk, total) ==
    IF ~statusOk
    THEN [ld |-> [ld EXCEPT !.status = kError, !.xhr = "headers"],
          out |-> <<Event("error", HTTP_STATUS_CODE_INVALID)>>]
    ELSE [ld |-> [ld EXCEPT !.status = kBuffering, !.xhr = "headers", !.total = total],
          out |-> <<>>]

MozOnProgress(ld, chunk) ==
    IF ld.status = kError THEN [ld |-> [ld EXCEPT !.pos = @ + Len(chunk)], out |-> <<>>]
    ELSE LET learns == ld.contentLength = Null /\ ld.total # 0
             byteStart == ld.rangeFrom + ld.receivedLength
         IN  [ld |-> [ld EXCEPT !.contentLength = IF learns THEN ld.total ELSE @,
                                !.receivedLength = @ + Len(chunk),
                                !.pos = @ + Len(chunk)],
              out |-> (IF learns THEN <<Event("contentLength", "")>> ELSE <<>>)
                      \o <<DataEvent(byteStart, chunk, 0)>>]

MozOnLoadEnd(ld) ==
    IF ld.requestAbort
    THEN [ld |-> [ld EXCEPT !.requestAbort = FALSE, !.xhr = "done"], out |-> <<>>]
    ELSE IF ld.status = kError
    THEN [ld |-> [ld EXCEPT !.xhr = "done"], out |-> <<>>]
    ELSE [ld |-> [ld EXCEPT !.status = kComplete, !.xhr = "done"],
          out |-> <<Event("complete", "")>>]

MozOnXhrError(ld, loaded) ==
    [ld |-> [ld EXCEPT !.status = kError, !.xhr = "failed"],
     out |-> <<Event("error",
                     IF ld.contentLength # Null /\ ld.contentLength # 0
                        /\ loaded < ld.contentLength
                     THEN EARLY_EOF ELSE EXCEPTION)>>]

\* abort(): xhr.abort() fires loadend at once when the request is in flight.
MozLoaderAbort(ld) ==
    LET ld1 == [ld EXCEPT !.requestAbort = TRUE]
        r == IF ld1.xhr \in {"sent", "headers"} THEN MozOnLoadEnd(ld1)
             ELSE [ld |-> ld1, out |-> <<>>]
    IN  [ld |-> [r.ld EXCEPT !.status = kComplete], out |-> r.out]

MozCommit(r, op, arg) ==
    /\ loader' = r.ld
    /\ out' = r.out
    /\ last' = [op |-> op, arg |-> arg, cb |-> <<>>, onError |-> TRUE, onData |-> TRUE]
    /\ UNCHANGED <<cfg, io, sampler, now, obs, budget>>

MozOpen(from) ==
    /\ loader.xhr = "none"
    /\ MozCommit([ld |-> MozLoaderOpen(loader, from), out |-> <<>>], "open", from)

MozHeaders(statusOk, lengthComputable) ==
    /\ loader.xhr = "sent"
    /\ MozCommit(MozOnReadyStateChange(loader, statusOk,
                    IF lengthComputable THEN TotalLen - loader.rangeFrom ELSE 0),
                 "headers", 0)

MozRemaining == TotalLen - (loader.rangeFrom + loader.pos)

MozProgress(len) ==
    /\ loader.xhr = "headers" /\ len <= MozRemaining
    /\ MozCommit(MozOnProgress(loader, ResourceBytes(loader.rangeFrom + loader.pos, len)),
                 "progress", len)

\* The response ended without an error event, complete or not.
MozLoadEnd ==
    /\ loader.xhr \in {"headers", "failed"}
    /\ MozCommit(MozOnLoadEnd(loader), "loadend", IF loader.xhr = "failed" THEN 1 ELSE 0)

\* The error event carries the bytes loaded so far, or 0.
MozXhrError(loaded) ==
    /\ loader.xhr \in {"sent", "headers"}
    /\ loaded \in {0, loader.pos}
    /\ MozCommit(MozOnXhrError(loader, loaded), "xhrError", loaded)

MozAbort ==
    /\ loader.xhr # "none" /\ LoaderIsWorking(loader)
    /\ MozCommit(MozLoaderAbort(loader), "abort", 0)

InitMoz ==
    /\ cfg \in {c \in Configs : c.enableStashBuffer /\ ~c.isLive /\ c.filesize = Null}
    /\ io = Constructed(cfg)
    /\ loader = MozNewLoader
    /\ sampler = NewSampler
    /\ now = StartTime
    /\ out = <<>>
    /\ obs = NewObs(0, FALSE)
    /\ last = [op |-> "new", arg |-> 0, cb |-> <<>>, onError |-> TRUE, onData |-> TRUE]
    /\ budget = [opened |-> FALSE, used |-> 0]

NextMoz ==
    \/ \E from \in Offsets : MozOpen(from)
    \/ \E statusOk \in BOOLEAN, lengthComputable \in BOOLEAN :
          MozHeaders(statusOk, lengthComputable)
    \/ \E len \in 1..MaxChunk : MozProgress(len)
    \/ MozLoadEnd
    \/ \E loaded \in 0..TotalLen : MozXhrError(loaded)
    \/ MozAbort

SpecMoz == InitMoz /\ [][NextMoz]_vars

\* The stream ended in this step, by an error event or by a loadend that no
\* error event preceded, with fewer bytes than the known contentLength.
MozStreamEndedShort ==
    /\ \/ last'.op = "xhrError"
       \/ last'.op = "loadend" /\ last'.arg = 0
    /\ loader.status # kError /\ ~loader.requestAbort
    /\ loader.contentLength # Null /\ loader.receivedLength < loader.contentLength

\* C27: when the stream of a fetch or chunked-XHR loader ends with
\* receivedLength below a known contentLength, the loader moves to kError and
\* reports EARLY_EOF to onError; it neither moves to kComplete nor calls
\* onComplete.
StreamingEarlyEof ==
    [][MozStreamEndedShort
       => /\ loader'.status = kError
          /\ out' = <<Event("error", EARLY_EOF)>>]_vars

(* ----------------------------- C29, C30 ------------------------------- *)
\* The chunk the transport delivers in the step.
ArrivedChunk == ResourceBytes(loader.rangeFrom + loader.pos, last'.arg)

FitsAfterAdjust == io.stashUsed + last'.arg <= io'.stashSize

\* C29: with the stash enabled, a chunk with stashUsed + length <= stashSize
\* is appended to the stash at stashUsed; nothing is dispatched and
\* currentRange is unchanged; stashByteStart becomes the chunk's byteStart
\* only when the stash is fresh (stashUsed = 0 and stashByteStart = 0).
ChunkFitsStash ==
    [][(ChunkAccepted /\ io.enableStash /\ FitsAfterAdjust)
       => /\ io'.stashUsed = io.stashUsed + last'.arg
          /\ io'.stashBuffer = io.stashBuffer \o ArrivedChunk
          /\ DataEvents(out') = <<>>
          /\ io'.currentRange = io.currentRange
          /\ io'.stashByteStart = IF io.stashUsed = 0 /\ io.stashByteStart = 0
                                  THEN DeliveredStart ELSE io.stashByteStart]_vars

\* A chunk was appended behind bytes that were in the stash already.
ChunkFitsStashWitness ==
    /\ last.op = "chunk" /\ last.cb = <<"data">> /\ io.enableStash
    /\ out = <<>>
    /\ io.stashUsed > last.arg
    /\ io.stashUsed <= io.stashSize

\* C30: with the stash disabled every accepted chunk causes exactly one
\* dispatch.  With an empty stash it is the chunk at its byteStart, and the
\* tail the consumer left is stashed at byteStart + consumed.  Otherwise it is
\* the stash followed by the chunk, at stashByteStart; stashUsed then shrinks
\* and stashByteStart advances by consumed.
StashDisabledDispatch ==
    [][(ChunkAccepted /\ ~io.enableStash)
       => /\ Len(DataEvents(out')) = 1
          /\ LET e == DataEvents(out')[1]
             IN  IF io.stashUsed = 0
                 THEN /\ e.start = DeliveredStart
                      /\ e.bytes = ArrivedChunk
                      /\ io'.stashUsed = last'.arg - e.consumed
                      /\ io'.stashBuffer = SeqDrop(ArrivedChunk, e.consumed)
                      /\ e.consumed < last'.arg
                            => io'.stashByteStart = DeliveredStart + e.consumed
                 ELSE /\ e.start = io.stashByteStart
                      /\ e.bytes = io.stashBuffer \o ArrivedChunk
                      /\ io'.stashUsed = io.stashUsed + last'.arg - e.consumed
                      /\ io'.stashByteStart = io.stashByteStart + e.consumed
                      /\ io'.stashBuffer = SeqDrop(e.bytes, e.consumed)]_vars

\* The retained tail was dispatched together with the new chunk, and the
\* consumer took a part of it.
StashDisabledDispatchWitness ==
    /\ last.op = "chunk" /\ last.cb = <<"data">> /\ ~io.enableStash
    /\ Len(out) = 1 /\ out[1].t = "data"
    /\ Len(out[1].bytes) > last.arg
    /\ out[1].consumed > 0
    /\ io.stashUsed > 0
    /\ io.stashByteStart = out[1].start + out[1].consumed

(* ----------------------------- RangeLoader ---------------------------- *)
\* The ranged-XHR loader on its own, xhr-range-loader.js, working on a
\* resource of RangeTotal bytes and driven by the events of its
\* XMLHttpRequests; out lists the callbacks it makes in a step.  xhr is the
\* position of the request in flight: "none" (no request, or its handlers
\* were removed), "sent", "headers" or "done"; req is its byte range and
\* loaded the bytes of its response received so far.  probes counts the
\* requests made for the total length, zeroRun the readings of 0 from
\* lastSecondKBps since its last reading that was not 0, and fellBack is
\* whether the last _onLoad took its speed from currentKBps; lengthTold
\* counts the calls of onContentLengthKnown.  null counts as 0
\* in arithmetic.
RangeTotalKB == 1536
RangeTotal == RangeTotalKB * 1024
MaxTicks == 2

\* The chunk size list with the controller's lowest speed step in front.
chunkSizeKBListFrom64 ==
    <<64, 128, 256, 384, 512, 768, 1024, 1536, 2048, 3072, 4096, 5120, 6144, 7168, 8192>>

chunkSizeKBList ==
    <<128, 256, 384, 512, 768, 1024, 1536, 2048, 3072, 4096, 5120, 6144, 7168, 8192>>

RangeNewLoader ==
    [status |-> kIdle, needStash |-> FALSE, currentChunkSizeKB |-> 384,
     currentSpeedNormalized |-> 0, zeroSpeedChunkCount |-> 0,
     requestAbort |-> FALSE, waitForTotalLength |-> FALSE,
     totalLengthReceived |-> FALSE, currentRequestRange |-> NoRange,
     totalLength |-> Null, contentLength |-> Null, receivedLength |-> 0,
     lastTimeLoaded |-> 0, range |-> NoRange,
     xhr |-> "none", req |-> NoRange, loaded |-> 0, probes |-> 0,
     zeroRun |-> 0, fellBack |-> FALSE, lengthTold |-> 0]

NullAsZero(x) == IF x = Null THEN 0 ELSE x

\* _internalOpen, lines 132-181.
RangeInternalOpen(ld, range) ==
    [ld EXCEPT !.lastTimeLoaded = 0, !.xhr = "sent", !.req = range, !.loaded = 0]

\* _openSubRange, lines 115-130.
RangeOpenSubRange(ld) ==
    LET chunkSize == ld.currentChunkSizeKB * 1024
        from == ld.range.from + ld.receivedLength
        to0 == from + chunkSize
        to == IF ld.contentLength # Null /\ to0 - ld.range.from >= ld.contentLength
              THEN ld.range.from + ld.contentLength - 1 ELSE to0
        requestRange == [from |-> from, to |-> to]
    IN  RangeInternalOpen([ld EXCEPT !.currentRequestRange = requestRange], requestRange)

\* open(), lines 91-110.
RangeLoaderOpen(ld, range, filesize) ==
    LET useRefTotalLength == filesize # Null /\ filesize # 0
        ld1 == [ld EXCEPT !.range = range, !.status = kConnecting,
                          !.totalLength = IF useRefTotalLength THEN filesize ELSE @]
    IN  IF ~ld1.totalLengthReceived /\ ~useRefTotalLength
        THEN RangeInternalOpen([ld1 EXCEPT !.waitForTotalLength = TRUE, !.probes = @ + 1],
                               [from |-> 0, to |-> -1])
        ELSE RangeOpenSubRange(ld1)

\* _internalAbort, lines 189-198.
RangeInternalAbort(ld) == [ld EXCEPT !.xhr = "none"]

\* abort(), lines 183-187.
RangeLoaderAbort(ld) ==
    [RangeInternalAbort([ld EXCEPT !.requestAbort = TRUE]) EXCEPT !.status = kComplete]

\* _onReadyStateChange, readyState = 2, lines 200-229.
RangeOnReadyStateChange(ld, statusOk) ==
    IF statusOk
    THEN IF ld.waitForTotalLength
         THEN [ld |-> [ld EXCEPT !.xhr = "headers"], sp |-> sampler, out |-> <<>>]
         ELSE [ld |-> [ld EXCEPT !.xhr = "headers", !.status = kBuffering],
               sp |-> sampler, out |-> <<>>]
    ELSE [ld |-> [ld EXCEPT !.xhr = "headers", !.status = kError], sp |-> sampler,
          out |-> <<Event("error", HTTP_STATUS_CODE_INVALID)>>]

\* _onProgress, lines 231-274.
RangeOnProgress(ld, loaded, total) ==
    LET ld0 == [ld EXCEPT !.loaded = loaded]
    IN  IF ld0.status = kError THEN [ld |-> ld0, sp |-> sampler, out |-> <<>>]
        ELSE LET sampled(l, events) ==
                     [ld |-> [l EXCEPT !.lastTimeLoaded = loaded],
                      sp |-> AddBytes(sampler, loaded - l.lastTimeLoaded),
                      out |-> events]
             IN  IF ld0.contentLength = Null
                 THEN LET waiting == ld0.waitForTotalLength
                          ld1 == IF waiting
                                 THEN [RangeInternalAbort(ld0) EXCEPT
                                          !.waitForTotalLength = FALSE,
                                          !.totalLengthReceived = TRUE,
                                          !.totalLength = IF total # 0 THEN total ELSE @]
                                 ELSE ld0
                          ld2 == [ld1 EXCEPT !.contentLength =
                                     IF ld1.range.to = -1
                                     THEN NullAsZero(ld1.totalLength) - ld1.range.from
                                     ELSE ld1.range.to - ld1.range.from + 1]
                      IN  IF waiting
                          THEN [ld |-> RangeOpenSubRange(ld2), sp |-> sampler, out |-> <<>>]
                          ELSE sampled(ld2, <<Event("contentLength", "")>>)
                 ELSE sampled(ld0, <<>>)

\* The ladder search of _normalizeSpeed, lines 280-301, is NormalizeSpeed over
\* chunkSizeKBList.  _onLoad, lines 303-361, with a response of chunkLen bytes.
RangeOnLoad(ld, chunkLen) ==
    IF ld.status = kError THEN [ld |-> [ld EXCEPT !.xhr = "done"], sp |-> sampler, out |-> <<>>]
    ELSE IF ld.waitForTotalLength
    THEN [ld |-> [ld EXCEPT !.waitForTotalLength = FALSE, !.xhr = "done"],
          sp |-> sampler, out |-> <<>>]
    ELSE LET last1 == LastSecondKBps(sampler)
             count == IF last1.num = 0 THEN ld.zeroSpeedChunkCount + 1
                      ELSE ld.zeroSpeedChunkCount
             KBps == IF last1.num = 0 /\ count >= 3 THEN CurrentKBps(last1.sp) ELSE last1
             normalized == IF KBps.num # 0
                           THEN NormalizeSpeed(chunkSizeKBList, KBps.num, KBps.den)
                           ELSE ld.currentSpeedNormalized
             changed == KBps.num # 0 /\ ld.currentSpeedNormalized # normalized
             ld1 == [ld EXCEPT !.lastTimeLoaded = 0, !.xhr = "done",
                               !.zeroSpeedChunkCount = count,
                               !.zeroRun = IF last1.num = 0 THEN @ + 1 ELSE 0,
                               !.fellBack = (last1.num = 0 /\ count >= 3 /\ KBps.num # 0),
                               !.currentSpeedNormalized = IF changed THEN normalized ELSE @,
                               !.currentChunkSizeKB = IF changed THEN normalized ELSE @]
             byteStart == ld1.range.from + ld1.receivedLength
             ld2 == [ld1 EXCEPT !.receivedLength = @ + chunkLen]
             more == ld2.contentLength # Null /\ ld2.receivedLength < ld2.contentLength
             data == [Event("data", "") EXCEPT !.start = byteStart, !.consumed = chunkLen]
         IN  IF more
             THEN [ld |-> RangeOpenSubRange(ld2), sp |-> KBps.sp, out |-> <<data>>]
             ELSE [ld |-> [ld2 EXCEPT !.status = kComplete], sp |-> KBps.sp,
                   out |-> <<data, Event("complete", "")>>]

\* _onXhrError, lines 363-382.
RangeOnXhrError(ld) ==
    [ld |-> [ld EXCEPT !.status = kError, !.xhr = "done"], sp |-> sampler,
     out |-> <<Event("error",
                     IF ld.contentLength # Null /\ ld.contentLength # 0
                        /\ ld.receivedLength > 0 /\ ld.receivedLength < ld.contentLength
                     THEN EARLY_EOF ELSE EXCEPTION)>>]

RangeCommit(r, op, arg) ==
    /\ loader' = [r.ld EXCEPT !.lengthTold =
                      @ + Len(SelectSeq(r.out, LAMBDA e : e.t = "contentLength"))]
    /\ sampler' = r.sp
    /\ out' = r.out
    /\ last' = [op |-> op, arg |-> arg, cb |-> <<>>, onError |-> TRUE, onData |-> TRUE]
    /\ UNCHANGED <<cfg, io, now, obs, budget>>

\* The first and the last byte the request in flight is answered with.
ServedFrom == loader.req.from
ServedTo ==
    IF loader.req.to = -1 \/ loader.req.to >= RangeTotal THEN RangeTotal - 1
    ELSE loader.req.to
ServedLen == ServedTo - ServedFrom + 1

RangeOpen(from) ==
    /\ loader.xhr = "none" /\ loader.status = kIdle
    /\ RangeCommit([ld |-> RangeLoaderOpen(loader, [from |-> from, to |-> -1], cfg.filesize),
                    sp |-> sampler, out |-> <<>>], "open", from)

\* A request for bytes the resource does not have is answered with 416.
RangeHeaders(statusOk) ==
    /\ loader.xhr = "sent"
    /\ statusOk => ServedLen > 0
    /\ RangeCommit(RangeOnReadyStateChange(loader, statusOk), "headers", 0)

\* A progress event after half of the response or after all of it; its total
\* is the length of the response, 0 when that is not computable.
RangeProgress(all, lengthComputable) ==
    /\ loader.xhr = "headers"
    /\ LET loaded == IF all THEN ServedLen ELSE ServedLen \div 2
       IN  /\ loaded > loader.loaded
           /\ RangeCommit(RangeOnProgress(loader, loaded,
                                          IF lengthComputable THEN ServedLen ELSE 0),
                          "progress", loaded)

RangeLoad ==
    /\ loader.xhr = "headers" /\ loader.status # kError
    /\ RangeCommit(RangeOnLoad(loader, ServedLen), "load", ServedLen)

RangeXhrError ==
    /\ loader.xhr \in {"sent", "headers"} /\ loader.status # kError
    /\ RangeCommit(RangeOnXhrError(loader), "xhrError", 0)

RangeAbort ==
    /\ LoaderIsWorking(loader)
    /\ RangeCommit([ld |-> RangeLoaderAbort(loader), sp |-> sampler, out |-> <<>>],
                   "abort", 0)

\* Time passes while a response is being received.
RangeTick(d) ==
    /\ loader.xhr = "headers" /\ budget.used < MaxTicks
    /\ now' = now + d
    /\ budget' = [budget EXCEPT !.used = @ + 1]
    /\ last' = [op |-> "tick", arg |-> d, cb |-> <<>>, onError |-> TRUE, onData |-> TRUE]
    /\ out' = <<>>
    /\ UNCHANGED <<cfg, io, loader, sampler, obs>>

RangeConfigs ==
    [isLive : {FALSE}, enableStashBuffer : {TRUE}, stashInitialSize : {Null},
     filesize : {Null, RangeTotal}]

InitRange ==
    /\ cfg \in RangeConfigs
    /\ io = Constructed(cfg)
    /\ loader = RangeNewLoader
    /\ sampler = NewSampler
    /\ now = StartTime
    /\ out = <<>>
    /\ obs = NewObs(0, FALSE)
    /\ last = [op |-> "new", arg |-> 0, cb |-> <<>>, onError |-> TRUE, onData |-> TRUE]
    /\ budget = [opened |-> FALSE, used |-> 0]

NextRange ==
    \/ \E from \in {0, 1024} : RangeOpen(from)
    \/ \E statusOk \in BOOLEAN : RangeHeaders(statusOk)
    \/ \E all \in BOOLEAN, lengthComputable \in BOOLEAN : RangeProgress(all, lengthComputable)
    \/ RangeLoad
    \/ RangeXhrError
    \/ RangeAbort
    \/ \E d \in TickSteps : RangeTick(d)

SpecRange == InitRange /\ [][NextRange]_vars

(* -------------------------------- C25 --------------------------------- *)
ChunkSizeLadder ==
    {128, 256, 384, 512, 768, 1024, 1536, 2048, 3072, 4096, 5120, 6144, 7168, 8192}

\* C25, as stated: currentChunkSizeKB is 128 when the loader is created and a
\* member of the ladder ever after.
ChunkSizeFrom128 ==
    /\ last.op = "new" => loader.currentChunkSizeKB = 128
    /\ loader.currentChunkSizeKB \in ChunkSizeLadder

\* C25, amended: currentChunkSizeKB is 384 when the loader is created and a
\* member of the ladder ever after.
ChunkSizeOnLadder ==
    /\ last.op = "new" => loader.currentChunkSizeKB = 384
    /\ loader.currentChunkSizeKB \in ChunkSizeLadder

\* The chunk size was changed by a normalized speed.
ChunkSizeOnLadderWitness ==
    /\ last.op = "load"
    /\ loader.currentChunkSizeKB = loader.currentSpeedNormalized
    /\ loader.currentChunkSizeKB # 384

(* -------------------------------- C26 --------------------------------- *)
RequestInFlight == loader.xhr \in {"sent", "headers"}

\* C26: with DataSource.filesize set no probe is made and the first request
\* starts at range.from; otherwise exactly one probe {from: 0, to: -1} is
\* made, it is aborted when the total length is learned, none of its bytes are
\* delivered, and ranged fetching always follows: the loader is never left in
\* kConnecting without a request in flight.
TotalLengthAcquisition ==
    /\ loader.probes = IF cfg.filesize # Null \/ loader.status = kIdle THEN 0 ELSE 1
    /\ loader.waitForTotalLength
          => loader.req = [from |-> 0, to |-> -1] /\ loader.receivedLength = 0
    /\ (loader.status = kConnecting /\ ~loader.waitForTotalLength /\ RequestInFlight)
          => loader.req.from = loader.range.from + loader.receivedLength
    /\ loader.status = kConnecting => RequestInFlight

(* ------------------------- WebSocketLoader ---------------------------- *)
\* The WebSocket loader on its own, src/io/websocket-loader.js, driven by the
\* events of its WebSocket; out lists the callbacks it makes in a step.
\* socket is the readyState of the WebSocket that open() created: "none",
\* "connecting", "open", "closing" (close() was called, or error was fired, and
\* the close event is due) or "closed".  ws is whether _ws refers to it.  sent
\* counts the bytes of the frames the server has sent; reading holds the Blob
\* frames whose FileReader has not finished yet, told the kinds of callbacks
\* ("data", "error", "complete") made since open().
MaxReading == 2

WSNewLoader ==
    [status |-> kIdle, needStash |-> TRUE, requestAbort |-> FALSE,
     receivedLength |-> 0, ws |-> FALSE, socket |-> "none", sent |-> 0,
     reading |-> <<>>, told |-> {}]

\* open(dataSource): the range argument is not a parameter of the method.
\* throws is whether the WebSocket constructor throws.
WSLoaderOpen(ld, throws) ==
    IF throws
    THEN [ld |-> [ld EXCEPT !.status = kError, !.socket = "closed"],
          out |-> <<Event("error", EXCEPTION)>>]
    ELSE [ld |-> [ld EXCEPT !.status = kConnecting, !.ws = TRUE, !.socket = "connecting"],
          out |-> <<>>]

WSLoaderAbort(ld) ==
    LET closes == ld.ws /\ ld.socket \in {"connecting", "open"}
    IN  [ld |-> [ld EXCEPT !.requestAbort = IF closes THEN TRUE ELSE @,
                           !.socket = IF closes THEN "closing" ELSE @,
                           !.ws = FALSE, !.status = kComplete],
         out |-> <<>>]

WSOnWebSocketOpen(ld) ==
    [ld |-> [ld EXCEPT !.status = kBuffering, !.socket = "open"], out |-> <<>>]

WSOnWebSocketClose(ld) ==
    IF ld.requestAbort
    THEN [ld |-> [ld EXCEPT !.requestAbort = FALSE, !.socket = "closed"], out |-> <<>>]
    ELSE [ld |-> [ld EXCEPT !.status = kComplete, !.socket = "closed"],
          out |-> <<Event("complete", "")>>]

WSDispatchArrayBuffer(ld, chunk) ==
    [ld |-> [ld EXCEPT !.receivedLength = @ + Len(chunk)],
     out |-> <<DataEvent(ld.receivedLength, chunk, 0)>>]

\* The kinds of e.data a message event can carry.
FrameKinds == {"ArrayBuffer", "Blob", "String"}

\* _onWebSocketMessage: an ArrayBuffer is dispatched, a Blob is handed to a
\* FileReader, anything else is an error.
WSOnWebSocketMessage(ld, kind, chunk) ==
    LET ld1 == [ld EXCEPT !.sent = @ + Len(chunk)]
    IN  CASE kind = "ArrayBuffer" -> WSDispatchArrayBuffer(ld1, chunk)
          [] kind = "Blob" ->
                [ld |-> [ld1 EXCEPT !.reading = Append(@, chunk)], out |-> <<>>]
          [] OTHER ->
                [ld |-> [ld1 EXCEPT !.status = kError],
                 out |-> <<Event("error", EXCEPTION)>>]

\* reader.onload of the i-th pending FileReader.
WSOnReaderLoad(ld, i) ==
    WSDispatchArrayBuffer(
        [ld EXCEPT !.reading = SubSeq(@, 1, i - 1) \o SubSeq(@, i + 1, Len(@))],
        ld.reading[i])

WSOnWebSocketError(ld) ==
    [ld |-> [ld EXCEPT !.status = kError, !.socket = "closing"],
     out |-> <<Event("error", EXCEPTION)>>]

\* last.cb holds the kind of e.data for a message event.
WSCommit(r, op, arg, kind) ==
    /\ loader' = [r.ld EXCEPT !.told = @ \cup {r.out[i].t : i \in 1..Len(r.out)}]
    /\ out' = r.out
    /\ last' = [op |-> op, arg |-> arg, cb |-> <<kind>>, onError |-> TRUE, onData |-> TRUE]
    /\ UNCHANGED <<cfg, io, sampler, now, obs, budget>>

WSOpen(from, throws) ==
    /\ loader.socket = "none"
    /\ WSCommit(WSLoaderOpen(loader, throws), "open", from, "")

WSSocketOpen ==
    /\ loader.socket = "connecting"
    /\ WSCommit(WSOnWebSocketOpen(loader), "socketOpen", 0, "")

\* A frame of len bytes arrives; the bytes are those of the server's stream.
WSMessage(kind, len) ==
    /\ loader.socket = "open"
    /\ loader.sent + len <= TotalLen
    /\ kind = "Blob" => Len(loader.reading) < MaxReading
    /\ WSCommit(WSOnWebSocketMessage(loader, kind, ResourceBytes(loader.sent, len)),
                "message", len, kind)

WSReaderLoad(i) ==
    /\ i \in 1..Len(loader.reading)
    /\ WSCommit(WSOnReaderLoad(loader, i), "readerLoad", i, "")

WSSocketError ==
    /\ loader.socket \in {"connecting", "open"}
    /\ WSCommit(WSOnWebSocketError(loader), "socketError", 0, "")

WSSocketClose ==
    /\ loader.socket \in {"open", "closing"}
    /\ WSCommit(WSOnWebSocketClose(loader), "socketClose", 0, "")

WSAbort ==
    /\ loader.socket # "none" /\ LoaderIsWorking(loader)
    /\ WSCommit(WSLoaderAbort(loader), "abort", 0, "")

InitWS ==
    /\ cfg \in {c \in Configs : c.enableStashBuffer /\ c.isLive /\ c.filesize = Null}
    /\ io = Constructed(cfg)
    /\ loader = WSNewLoader
    /\ sampler = NewSampler
    /\ now = StartTime
    /\ out = <<>>
    /\ obs = NewObs(0, FALSE)
    /\ last = [op |-> "new", arg |-> 0, cb |-> <<>>, onError |-> TRUE, onData |-> TRUE]
    /\ budget = [opened |-> FALSE, used |-> 0]

NextWS ==
    \/ \E from \in Offsets, throws \in BOOLEAN : WSOpen(from, throws)
    \/ WSSocketOpen
    \/ \E kind \in FrameKinds, len \in 1..MaxChunk : WSMessage(kind, len)
    \/ \E i \in 1..MaxReading : WSReaderLoad(i)
    \/ WSSocketError
    \/ WSSocketClose
    \/ WSAbort

SpecWS == InitWS /\ [][NextWS]_vars

(* -------------------------------- C28 --------------------------------- *)
\* The frame that arrives in the step, as a byte buffer.
ArrivedFrame == ResourceBytes(loader.sent, last'.arg)

\* C28: open() ignores the range; a binary frame is dispatched with byteStart
\* equal to the bytes received before it; a text or blob frame is converted to
\* a byte buffer and dispatched, in the step or when its reader has finished;
\* a frame of another kind moves the loader to kError and yields exactly one
\* onError(Exception) and no data.
WebSocketFrames ==
    [][/\ last'.op = "open" /\ loader'.status = kConnecting
            => loader'.receivedLength = 0 /\ out' = <<>>
       /\ (last'.op = "message" /\ last'.cb = <<"ArrayBuffer">>)
            => out' = <<DataEvent(loader.receivedLength, ArrivedFrame, 0)>>
       /\ (last'.op = "message" /\ last'.cb \in {<<"Blob">>, <<"String">>})
            => \/ out' = <<DataEvent(loader.receivedLength, ArrivedFrame, 0)>>
               \/ /\ loader'.reading = Append(loader.reading, ArrivedFrame)
                  /\ out' = <<>>
       /\ (last'.op = "message" /\ last'.cb \notin {<<"ArrayBuffer">>, <<"Blob">>, <<"String">>})
            => /\ loader'.status = kError
               /\ out' = <<Event("error", EXCEPTION)>>
       /\ last'.op = "readerLoad"
            => out' = <<DataEvent(loader.receivedLength, loader.reading[last'.arg], 0)>>]_vars

(* ------------------------ _flushStashBuffer alone --------------------- *)
\* _flushStashBuffer applied to the stash states the controller can hold: used
\* bytes of the resource from stashByteStart on.  The consumer answers with
\* consumed, or is not bound.
MaxStashed == 3
MaxStashEnd == 6

FlushInputs ==
    [drop : BOOLEAN, consumed : 0..MaxStashed, hasOnData : BOOLEAN]

InitFlush ==
    /\ cfg \in {c \in Configs : c.filesize = Null}
    /\ \E used \in 0..MaxStashed, start \in 0..Offset :
          io = [Constructed(cfg) EXCEPT !.stashBuffer = ResourceBytes(start, used),
                                        !.stashUsed = used,
                                        !.stashByteStart = IF used = 0 THEN 0 ELSE start]
    /\ loader = NewLoader
    /\ sampler = NewSampler
    /\ now = StartTime
    /\ out = <<>>
    /\ obs = NewObs(0, FALSE)
    /\ last = [op |-> "new", arg |-> 0, cb |-> <<>>, onError |-> TRUE, onData |-> TRUE]
    /\ budget = [opened |-> FALSE, used |-> 0]

\* A call of _flushStashBuffer; last.arg carries its arguments and its result.
Flush(in) ==
    LET w == [World(<<in.consumed>>) EXCEPT !.hasOnData = in.hasOnData]
        w1 == FlushStashBuffer(w, in.drop)
    IN  /\ in.consumed <= io.stashUsed
        /\ io' = [w1.c EXCEPT !.stashBuffer = SubSeq(@, 1, w1.c.stashUsed)]
        /\ out' = w1.out
        /\ last' = [op |-> "flush",
                    arg |-> [drop |-> in.drop, consumed |-> in.consumed, ret |-> w1.ret],
                    cb |-> <<>>, onError |-> TRUE, onData |-> in.hasOnData]
        /\ UNCHANGED <<cfg, loader, sampler, now, obs, budget>>

\* Lines 677-690: a chunk that fits is appended to the stash.
StashAppend(len) ==
    LET start == IF io.stashUsed = 0 THEN io.stashByteStart ELSE io.stashByteStart + io.stashUsed
    IN  /\ io.stashUsed + len <= MaxStashed
        /\ start + len <= MaxStashEnd
        /\ io' = [io EXCEPT !.stashBuffer = @ \o ResourceBytes(start, len),
                            !.stashUsed = @ + len]
        /\ out' = <<>>
        /\ last' = [op |-> "stash", arg |-> len, cb |-> <<>>, onError |-> TRUE,
                    onData |-> TRUE]
        /\ UNCHANGED <<cfg, loader, sampler, now, obs, budget>>

NextFlush ==
    \/ \E in \in FlushInputs : Flush(in)
    \/ \E len \in 1..MaxChunk : StashAppend(len)

SpecFlush == InitFlush /\ [][NextFlush]_vars

(* -------------------------------- C31 --------------------------------- *)
\* C31: _flushStashBuffer(dropUnconsumed) with an empty stash dispatches
\* nothing and returns 0; with a non-empty stash it dispatches the used bytes
\* once at stashByteStart and then, with consumed = used, empties the stash
\* and returns 0; with consumed < used and dropUnconsumed, empties the stash
\* and returns used - consumed; with consumed < used and no dropUnconsumed,
\* keeps the tail at the front of the buffer, with stashUsed reduced and
\* stashByteStart advanced by consumed, and returns 0.
FlushStash ==
    [][(last'.op = "flush" /\ last'.onData)
       => LET used == io.stashUsed
              consumed == last'.arg.consumed
              ret == last'.arg.ret
          IN  IF used = 0
              THEN out' = <<>> /\ ret = 0 /\ io' = io
              ELSE /\ out' = <<DataEvent(io.stashByteStart,
                                         SubSeq(io.stashBuffer, 1, used), consumed)>>
                   /\ IF consumed = used
                      THEN io'.stashUsed = 0 /\ io'.stashByteStart = 0 /\ ret = 0
                      ELSE IF last'.arg.drop
                      THEN /\ io'.stashUsed = 0 /\ io'.stashByteStart = 0
                           /\ ret = used - consumed
                      ELSE /\ io'.stashUsed = used - consumed
                           /\ io'.stashByteStart = io.stashByteStart + consumed
                           /\ SubSeq(io'.stashBuffer, 1, used - consumed)
                                 = SubSeq(io.stashBuffer, consumed + 1, used)
                           /\ ret = 0
                           /\ consumed = 0
                                 => [io' EXCEPT !.currentRange = io.currentRange] = io]_vars

\* A flush has kept a tail: part of the stash was consumed, the rest stays.
FlushStashWitness ==
    /\ last.op = "flush" /\ last.onData /\ ~last.arg.drop
    /\ last.arg.consumed > 0
    /\ io.stashUsed > 0 /\ io.stashByteStart > last.arg.consumed

(* -------------------------------- C32 --------------------------------- *)
\* C32: after a completed sub-range whose sampled speed is not 0 the chunk
\* size is the normalized speed, and currentKBps is read in place of
\* lastSecondKBps only when lastSecondKBps read 0 for three sub-ranges in a
\* row (zeroRun counts the 0 readings since the last reading that was not 0).
SpeedFallback ==
    last.op = "load"
       => /\ loader.currentSpeedNormalized # 0
             => loader.currentChunkSizeKB = loader.currentSpeedNormalized
          /\ loader.fellBack => loader.zeroRun >= 3

(* -------------------------------- C33 --------------------------------- *)
\* A sub-range request is in flight.
SubRangeInFlight ==
    /\ RequestInFlight /\ ~loader.waitForTotalLength
    /\ loader.status \in {kConnecting, kBuffering}

\* C33: a sub-range request is the inclusive range [from, to] with
\* from = range.from + receivedLength; it covers currentChunkSizeKB * 1024
\* bytes, or fewer when it is the last one, and never reaches past
\* range.from + contentLength - 1; when receivedLength reaches contentLength
\* the loader is kComplete and has called onComplete once, after the last
\* chunk.
SubRanges ==
    /\ SubRangeInFlight
          => LET len == loader.req.to - loader.req.from + 1
                 lastByte == loader.range.from + loader.contentLength - 1
             IN  /\ loader.req.from = loader.range.from + loader.receivedLength
                 /\ loader.contentLength # Null => loader.req.to <= lastByte
                 /\ \/ len = loader.currentChunkSizeKB * 1024
                    \/ /\ len < loader.currentChunkSizeKB * 1024
                       /\ loader.contentLength # Null /\ loader.req.to = lastByte
    /\ (last.op = "load" /\ loader.contentLength # Null
           /\ loader.receivedLength >= loader.contentLength)
          => /\ loader.status = kComplete
             /\ Len(out) = 2 /\ out[1].t = "data" /\ out[2].t = "complete"

\* What holds of the sub-ranges whatever their length: they start where the
\* last one ended, stay within the content, end with one onComplete after the
\* last chunk, and a sampled speed other than 0 sets the chunk size.
SubRangesContiguous ==
    /\ SubRangeInFlight
          => /\ loader.req.from = loader.range.from + loader.receivedLength
             /\ loader.contentLength # Null
                   => loader.req.to <= loader.range.from + loader.contentLength - 1
    /\ (last.op = "load" /\ loader.contentLength # Null
           /\ loader.receivedLength >= loader.contentLength)
          => /\ loader.status = kComplete
             /\ Len(out) = 2 /\ out[1].t = "data" /\ out[2].t = "complete"
    /\ (last.op = "load" /\ loader.currentSpeedNormalized # 0)
          => loader.currentChunkSizeKB = loader.currentSpeedNormalized

(* -------------------------- SpeedSampler alone ------------------------ *)
\* The sampler under calls of addBytes, lastSecondKBps and reset at the
\* times of an integer millisecond clock.  budget keeps what the caller knows:
\* the time of the last reset (or of the construction), whether addBytes ran
\* since, the sum of the bytes added since, and the clock steps taken.
MaxSamplerTicks == 5
MaxSamplerBytes == 4
SamplerSteps == {250, 500, 1000}

InitSampler ==
    /\ cfg \in {c \in Configs : c.enableStashBuffer /\ ~c.isLive /\ c.filesize = Null}
    /\ io = Constructed(cfg)
    /\ loader = NewLoader
    /\ sampler = NewSampler
    /\ now = StartTime
    /\ out = <<>>
    /\ obs = NewObs(0, FALSE)
    /\ last = [op |-> "new", arg |-> 0, cb |-> <<>>, onError |-> TRUE, onData |-> TRUE]
    /\ budget = [opened |-> FALSE, used |-> 0, resetAt |-> StartTime, fresh |-> TRUE,
                 sum |-> 0]

SamplerAddBytes(n) ==
    /\ budget.sum + n <= MaxSamplerBytes
    /\ sampler' = AddBytes(sampler, n)
    /\ budget' = [budget EXCEPT !.fresh = FALSE, !.sum = @ + n]
    /\ out' = <<>>
    /\ last' = [op |-> "addBytes", arg |-> n, cb |-> <<>>, onError |-> TRUE, onData |-> TRUE]
    /\ UNCHANGED <<cfg, io, loader, now, obs>>

\* The getter lastSecondKBps; out holds the speed it returned.
SamplerLastSecondKBps ==
    LET r == LastSecondKBps(sampler)
    IN  /\ sampler' = r.sp
        /\ budget' = [budget EXCEPT !.fresh = FALSE]
        /\ out' = <<[num |-> r.num, den |-> r.den]>>
        /\ last' = [op |-> "lastSecondKBps", arg |-> 0, cb |-> <<>>, onError |-> TRUE,
                    onData |-> TRUE]
        /\ UNCHANGED <<cfg, io, loader, now, obs>>

SamplerDoReset ==
    /\ ~budget.fresh
    /\ sampler' = SamplerReset(sampler)
    /\ budget' = [budget EXCEPT !.resetAt = now, !.fresh = TRUE, !.sum = 0]
    /\ out' = <<>>
    /\ last' = [op |-> "reset", arg |-> 0, cb |-> <<>>, onError |-> TRUE, onData |-> TRUE]
    /\ UNCHANGED <<cfg, io, loader, now, obs>>

SamplerTick(d) ==
    /\ budget.used < MaxSamplerTicks
    /\ now' = now + d
    /\ budget' = [budget EXCEPT !.used = @ + 1]
    /\ out' = <<>>
    /\ last' = [op |-> "tick", arg |-> d, cb |-> <<>>, onError |-> TRUE, onData |-> TRUE]
    /\ UNCHANGED <<cfg, io, loader, sampler, obs>>

NextSampler ==
    \/ \E n \in 0..2 : SamplerAddBytes(n)
    \/ SamplerLastSecondKBps
    \/ SamplerDoReset
    \/ \E d \in SamplerSteps : SamplerTick(d)

SpecSampler == InitSampler /\ [][NextSampler]_vars

TotalLengthFromFullRequest ==
    [][(cfg.filesize = Null /\ io'.totalLength # io.totalLength)
       => /\ \E i \in 1..Len(last'.cb) : last'.cb[i] = "contentLength"
          /\ loader.rangeFrom = 0]_vars

(* -------------------------------- C36 --------------------------------- *)
\* C36: a loader error that arrives while isEarlyEofReconnecting is set
\* clears the flag, is reported to onError once as UnrecoverableEarlyEof
\* whatever its kind, and starts no reconnect; so no reconnect is started
\* while the flag of the previous one is still set.
ReconnectOnce ==
    [][/\ (io.isEarlyEofReconnecting /\ ErrorReported /\ last'.onError)
          => /\ ~io'.isEarlyEofReconnecting
             /\ Reports(out') = <<Event("error", UNRECOVERABLE_EARLY_EOF)>>
             /\ Seeked(out') = <<>>
       /\ (io.isEarlyEofReconnecting /\ last'.op \in TransportOps)
          => Seeked(out') = <<>>]_vars

\* An HTTP status error arrived during a reconnect and was reported as
\* UnrecoverableEarlyEof.
ReconnectOnceWitness ==
    /\ last.op = "badStatus" /\ last.onError
    /\ last.cb # <<>> /\ Head(last.cb) = HTTP_STATUS_CODE_INVALID
    /\ Reports(out) = <<Event("error", UNRECOVERABLE_EARLY_EOF)>>
    /\ ~io.isEarlyEofReconnecting

(* -------------------------------- C37 --------------------------------- *)
\* C37: a loader that has called onError calls neither onComplete nor
\* onDataArrival afterwards, and one that has called onComplete does not call
\* onError afterwards.
OneTerminalNotification ==
    [][/\ "error" \in loader.told
          => \A i \in 1..Len(out') : out'[i].t \notin {"complete", "data"}
       /\ "complete" \in loader.told
          => \A i \in 1..Len(out') : out'[i].t # "error"]_vars

(* -------------------------------- C38 --------------------------------- *)
\* C38: the ranged loader calls onContentLengthKnown at most once, and has
\* called it once when it calls onDataArrival, whether the total length came
\* from DataSource.filesize or from the probe request.
ContentLengthToldOnce ==
    /\ loader.lengthTold <= 1
    /\ (\E i \in 1..Len(out) : out[i].t = "data") => loader.lengthTold = 1

(* ============================ MSEController ============================ *)
\* src/core/mse-controller.js.  In SpecMSE the variable io holds the
\* MSEController: mediaSource is "null" before attachMediaElement and the
\* MediaSource's readyState afterwards; sourceBuffers says which SourceBuffers
\* exist and updating is their updating attribute; a pending segment is
\* [id, empty], id its number of arrival on its track; pendingRemoveRanges
\* counts the ranges queued per track.  appended lists the segments a
\* SourceBuffer accepted, pushed counts the arrivals and fullRun the
\* BUFFER_FULL events since the last accepted appendBuffer.  The loops
\* for (let type in ...) visit video before audio.
MaxSegments == 2
MaxRanges == 1

MSEEvent(t, type, id, flag) == [t |-> t, type |-> type, id |-> id, flag |-> flag]

NewMSEController ==
    [mediaSource |-> "null",
     sourceBuffers |-> [t \in {"video", "audio"} |-> FALSE],
     updating |-> [t \in {"video", "audio"} |-> FALSE],
     mimeTypes |-> [t \in {"video", "audio"} |-> FALSE],
     pendingSourceBufferInit |-> <<>>,
     pendingSegments |-> [t \in {"video", "audio"} |-> <<>>],
     pendingRemoveRanges |-> [t \in {"video", "audio"} |-> 0],
     isBufferFull |-> FALSE,
     hasPendingEos |-> FALSE,
     requireSetMediaDuration |-> FALSE,
     appended |-> [t \in {"video", "audio"} |-> <<>>],
     pushed |-> [t \in {"video", "audio"} |-> 0],
     fullRun |-> 0,
     events |-> <<>>]

HasPendingSegments(m) ==
    Len(m.pendingSegments["video"]) > 0 \/ Len(m.pendingSegments["audio"]) > 0

HasPendingRemoveRanges(m) ==
    m.pendingRemoveRanges["video"] > 0 \/ m.pendingRemoveRanges["audio"] > 0

\* _doRemoveRanges, lines 446-458: SourceBuffer.remove sets updating, so one
\* range per track leaves the queue; remove on an ended MediaSource opens it.
DoRemoveRanges(m) ==
    LET step(c, type) ==
            IF ~c.sourceBuffers[type] \/ c.updating[type]
                 \/ c.pendingRemoveRanges[type] = 0
            THEN c
            ELSE [c EXCEPT !.pendingRemoveRanges[type] = @ - 1,
                           !.updating[type] = TRUE,
                           !.mediaSource = "open",
                           !.events = Append(@, MSEEvent("remove", type, 0, FALSE))]
    IN  step(step(m, "video"), "audio")

\* The mutation of _doAppendSegments that puts a segment whose append threw
\* at the tail of its queue.
DoAppendSegmentsRequeueing(m, res) ==
    LET step(c, type) ==
            IF ~c.sourceBuffers[type] \/ c.updating[type]
                 \/ c.pendingSegments[type] = <<>>
            THEN c
            ELSE LET segment == Head(c.pendingSegments[type])
                     shifted == [c EXCEPT !.pendingSegments[type] = Tail(@)]
                     outcome == IF c.updating[type] THEN "error" ELSE res[type]
                     called == [shifted EXCEPT !.mediaSource =
                                    IF outcome = "error" THEN @ ELSE "open"]
                 IN  IF segment.empty
                     THEN shifted
                     ELSE IF outcome = "ok"
                     THEN [called EXCEPT
                             !.updating[type] = TRUE,
                             !.isBufferFull = FALSE,
                             !.appended[type] = Append(@, segment.id),
                             !.fullRun = 0,
                             !.events = Append(@, MSEEvent("appended", type,
                                                   segment.id, c.updating[type]))]
                     ELSE [called EXCEPT
                             !.pendingSegments[type] = Append(@, segment),
                             !.isBufferFull = (outcome = "quota") \/ @,
                             !.fullRun = IF outcome = "quota" /\ ~c.isBufferFull
                                         THEN @ + 1 ELSE @,
                             !.events = @ \o
                                 <<MSEEvent("appendThrew", type, segment.id,
                                            c.updating[type])>> \o
                                 (IF outcome = "quota"
                                  THEN IF c.isBufferFull THEN <<>>
                                       ELSE <<MSEEvent("BUFFER_FULL", type, 0, FALSE)>>
                                  ELSE <<MSEEvent("ERROR", type, 0, FALSE)>>)]
    IN  step(step(m, "video"), "audio")

\* _doAppendSegments, lines 460-531.  res[type] is what appendBuffer does on
\* the track's SourceBuffer: "ok", "quota" (QuotaExceededError, code 22) or
\* "error" (any other exception); on a SourceBuffer that is updating it
\* throws InvalidStateError; an ended MediaSource is opened before the quota
\* is looked at.
DoAppendSegments(m, res) ==
    LET step(c, type) ==
            IF ~c.sourceBuffers[type] \/ c.updating[type]
                 \/ c.pendingSegments[type] = <<>>
            THEN c
            ELSE LET segment == Head(c.pendingSegments[type])
                     shifted == [c EXCEPT !.pendingSegments[type] = Tail(@)]
                     outcome == IF c.updating[type] THEN "error" ELSE res[type]
                     called == [shifted EXCEPT !.mediaSource =
                                    IF outcome = "error" THEN @ ELSE "open"]
                 IN  IF segment.empty
                     THEN shifted
                     ELSE IF outcome = "ok"
                     THEN [called EXCEPT
                             !.updating[type] = TRUE,
                             !.isBufferFull = FALSE,
                             !.appended[type] = Append(@, segment.id),
                             !.fullRun = 0,
                             !.events = Append(@, MSEEvent("appended", type,
                                                   segment.id, c.updating[type]))]
                     ELSE [called EXCEPT
                             !.pendingSegments[type] = <<segment>> \o @,
                             !.isBufferFull = (outcome = "quota") \/ @,
                             !.fullRun = IF outcome = "quota" /\ ~c.isBufferFull
                                         THEN @ + 1 ELSE @,
                             !.events = @ \o
                                 <<MSEEvent("appendThrew", type, segment.id,
                                            c.updating[type])>> \o
                                 (IF outcome = "quota"
                                  THEN IF c.isBufferFull THEN <<>>
                                       ELSE <<MSEEvent("BUFFER_FULL", type, 0, FALSE)>>
                                  ELSE <<MSEEvent("ERROR", type, 0, FALSE)>>)]
    IN  step(step(m, "video"), "audio")

\* _updateMediaSourceDuration, lines 425-444; ready is
\* mediaElement.readyState !== 0.
UpdateMediaSourceDuration(m, ready) ==
    IF ~ready \/ m.mediaSource # "open"
    THEN m
    ELSE IF (m.sourceBuffers["video"] /\ m.updating["video"])
              \/ (m.sourceBuffers["audio"] /\ m.updating["audio"])
    THEN m
    ELSE [m EXCEPT !.requireSetMediaDuration = FALSE]

\* endOfStream, lines 339-361.  The flag of the event says whether segments
\* were pending when MediaSource.endOfStream was called.
EndOfStreamOf(m) ==
    IF m.mediaSource # "open"
    THEN IF m.mediaSource = "closed" /\ HasPendingSegments(m)
         THEN [m EXCEPT !.hasPendingEos = TRUE]
         ELSE m
    ELSE IF (m.sourceBuffers["video"] /\ m.updating["video"])
              \/ (m.sourceBuffers["audio"] /\ m.updating["audio"])
    THEN [m EXCEPT !.hasPendingEos = TRUE]
    ELSE [m EXCEPT !.hasPendingEos = FALSE,
                   !.mediaSource = "ended",
                   !.events = Append(@, MSEEvent("endOfStream", "", 0,
                                                 HasPendingSegments(m)))]

\* appendInitSegment, lines 181-239.  in.addThrows are the tracks whose
\* addSourceBuffer throws, in.mpeg says that the segment is audio/mpeg with a
\* media duration, in.res and in.ready are as above.
AppendInitSegmentTo(m, type, segment, deferred, in) ==
    IF m.mediaSource # "open"
    THEN [m EXCEPT !.pendingSourceBufferInit = Append(@, [type |-> type, seg |-> segment]),
                   !.pendingSegments[type] = Append(@, segment)]
    ELSE LET firstInitSegment == ~m.mimeTypes[type]
         IN  IF firstInitSegment /\ type \in in.addThrows
             THEN [m EXCEPT !.events = Append(@, MSEEvent("ERROR", type, 0, FALSE))]
             ELSE LET created == [m EXCEPT !.sourceBuffers[type] = TRUE,
                                           !.mimeTypes[type] = TRUE]
                      queued == IF deferred THEN created
                                ELSE [created EXCEPT
                                        !.pendingSegments[type] = Append(@, segment)]
                      fed == IF ~firstInitSegment /\ queued.sourceBuffers[type]
                                  /\ ~queued.updating[type]
                             THEN DoAppendSegments(queued, in.res)
                             ELSE queued
                  IN  IF cfg.safari /\ type = "audio" /\ in.mpeg
                      THEN UpdateMediaSourceDuration(
                               [fed EXCEPT !.requireSetMediaDuration = TRUE], in.ready)
                      ELSE fed

\* Only Safari looks at the media duration of an audio/mpeg segment, and only
\* then is the media element's readyState read.
MSEInputs ==
    [res : [{"video", "audio"} -> {"ok", "quota", "error"}],
     addThrows : SUBSET {"video", "audio"},
     mpeg : IF cfg.safari THEN BOOLEAN ELSE {FALSE},
     ready : IF cfg.safari THEN BOOLEAN ELSE {TRUE}]

MSECommit(m, op, arg) ==
    /\ io' = [m EXCEPT !.events = <<>>]
    /\ out' = m.events
    /\ last' = [op |-> op, arg |-> arg, cb |-> <<>>, onError |-> TRUE, onData |-> TRUE]
    /\ UNCHANGED <<cfg, loader, sampler, now, obs, budget>>

InitMSE ==
    /\ cfg \in [autoCleanupSourceBuffer : BOOLEAN, safari : BOOLEAN]
    /\ io = NewMSEController
    /\ loader = NewLoader
    /\ sampler = NewSampler
    /\ now = StartTime
    /\ out = <<>>
    /\ obs = NewObs(0, FALSE)
    /\ last = [op |-> "new", arg |-> 0, cb |-> <<>>, onError |-> TRUE, onData |-> TRUE]
    /\ budget = [opened |-> FALSE, used |-> 0]

\* attachMediaElement, lines 102-118.
AttachMediaElement ==
    IF io.mediaSource # "null"
    THEN MSECommit([io EXCEPT !.events = <<MSEEvent("thrown", "", 0, FALSE)>>],
                   "attachMediaElement", 0)
    ELSE MSECommit([io EXCEPT !.mediaSource = "closed"], "attachMediaElement", 0)

\* The MediaSource opens and _onSourceOpen (lines 533-558) runs.
OnSourceOpen(in) ==
    /\ io.mediaSource = "closed"
    /\ LET RECURSIVE drain(_, _)
           drain(c, pendings) ==
               IF pendings = <<>> THEN c
               ELSE drain(AppendInitSegmentTo(c, Head(pendings).type,
                                              Head(pendings).seg, TRUE, in),
                          Tail(pendings))
           opened == [io EXCEPT !.mediaSource = "open",
                                !.pendingSourceBufferInit = <<>>]
           drained == drain(opened, io.pendingSourceBufferInit)
           fed == IF HasPendingSegments(drained)
                  THEN DoAppendSegments(drained, in.res) ELSE drained
       IN  MSECommit([fed EXCEPT !.events = Append(@, MSEEvent("SOURCE_OPEN", "", 0, FALSE))],
                     "sourceopen", 0)

AppendInitSegment(type, in) ==
    /\ io.pushed[type] < MaxSegments
    /\ LET segment == [id |-> io.pushed[type] + 1, empty |-> FALSE]
       IN  MSECommit(AppendInitSegmentTo([io EXCEPT !.pushed[type] = @ + 1],
                                         type, segment, FALSE, in),
                     "appendInitSegment", type)

\* appendMediaSegment, lines 264-279, with _jump (lines 241-262) and
\* _doCleanupSourceBuffer (lines 390-423).  jump is "paused" when the media
\* element is paused, "set" when _jump assigns MediaSource.duration and
\* "skip" otherwise; cleanup[type] is the number of ranges the cleanup queues
\* on the track.
AppendMediaSegment(type, empty, jump, cleanup, in) ==
    /\ io.pushed[type] < MaxSegments
    /\ jump = "set" => io.appended["video"] # <<>> /\ io.appended["audio"] # <<>>
    /\ \A t \in {"video", "audio"} :
          /\ io.pendingRemoveRanges[t] + cleanup[t] <= MaxRanges
          /\ cleanup[t] > 0 => cfg.autoCleanupSourceBuffer /\ io.appended[t] # <<>>
    /\ LET anyUpdating == io.updating["video"] \/ io.updating["audio"]
           throws ==
               \/ io.mediaSource = "null"
               \/ /\ jump # "paused"
                  /\ ~(io.sourceBuffers["video"] /\ io.sourceBuffers["audio"])
               \/ jump = "set" /\ ~anyUpdating /\ io.mediaSource # "open"
           segment == [id |-> io.pushed[type] + 1, empty |-> empty]
           pushed == [io EXCEPT !.pushed[type] = @ + 1,
                                !.pendingSegments[type] = Append(@, segment)]
           clean(c, t) ==
               LET ranged == [c EXCEPT !.pendingRemoveRanges[t] = @ + cleanup[t]]
               IN  IF cleanup[t] > 0 /\ ~c.updating[t]
                   THEN DoRemoveRanges(ranged) ELSE ranged
           cleaned == clean(clean(pushed, "video"), "audio")
           fed == IF cleaned.sourceBuffers[type] /\ ~cleaned.updating[type]
                       /\ ~HasPendingRemoveRanges(cleaned)
                  THEN DoAppendSegments(cleaned, in.res) ELSE cleaned
       IN  IF throws
           THEN MSECommit([io EXCEPT !.events = <<MSEEvent("thrown", type, 0, FALSE)>>],
                          "appendMediaSegment", type)
           ELSE MSECommit(fed, "appendMediaSegment", type)

\* The updateend event of a SourceBuffer and _onSourceBufferUpdateEnd,
\* lines 587-598.
OnSourceBufferUpdateEnd(type, in) ==
    /\ io.updating[type]
    /\ LET m == [io EXCEPT !.updating[type] = FALSE]
           handled ==
               IF m.requireSetMediaDuration THEN UpdateMediaSourceDuration(m, in.ready)
               ELSE IF HasPendingRemoveRanges(m) THEN DoRemoveRanges(m)
               ELSE IF HasPendingSegments(m) THEN DoAppendSegments(m, in.res)
               ELSE IF m.hasPendingEos THEN EndOfStreamOf(m)
               ELSE m
       IN  MSECommit([handled EXCEPT
                         !.events = Append(@, MSEEvent("UPDATE_END", type, 0, FALSE))],
                     "updateend", type)

EndOfStream ==
    MSECommit(EndOfStreamOf(io), "endOfStream", 0)

NextMSE ==
    \/ AttachMediaElement
    \/ \E in \in MSEInputs : OnSourceOpen(in)
    \/ \E type \in {"video", "audio"} :
          \E in \in {i \in MSEInputs : i.addThrows \subseteq {type}
                                        /\ (i.mpeg => type = "audio")} :
             AppendInitSegment(type, in)
    \/ \E type \in {"video", "audio"}, empty \in BOOLEAN,
          jump \in {"paused", "skip", "set"},
          cleanup \in [{"video", "audio"} -> 0..MaxRanges],
          in \in {i \in MSEInputs : i.addThrows = {} /\ ~i.mpeg /\ i.ready} :
          AppendMediaSegment(type, empty, jump, cleanup, in)
    \/ \E type \in {"video", "audio"},
          in \in {i \in MSEInputs : i.addThrows = {} /\ ~i.mpeg} :
          OnSourceBufferUpdateEnd(type, in)
    \/ EndOfStream

SpecMSE == InitMSE /\ [][NextMSE]_vars

(* -------------------------------- C39 --------------------------------- *)
Increasing(s) == \A i, j \in 1..Len(s) : i < j => s[i] < s[j]

SegmentIds(q) == [i \in 1..Len(q) |-> q[i].id]

\* C39: MSEController never calls appendBuffer on a SourceBuffer that is
\* updating; on each track the segments accepted so far, followed by the
\* segments still pending, are in their order of arrival; a segment whose
\* append threw is at the head of its queue when the handler returns; and at
\* most one BUFFER_FULL is emitted since the last accepted append.
AppendDiscipline ==
    /\ \A i \in 1..Len(out) :
          out[i].t \in {"appended", "appendThrew"} => ~out[i].flag
    /\ \A t \in {"video", "audio"} :
          Increasing(io.appended[t] \o SegmentIds(io.pendingSegments[t]))
    /\ \A i \in 1..Len(out) :
          out[i].t = "appendThrew"
          => /\ io.pendingSegments[out[i].type] # <<>>
             /\ Head(io.pendingSegments[out[i].type]).id = out[i].id
    /\ io.fullRun <= 1

\* A handler in which the append of the first of two pending video segments
\* threw QuotaExceededError while the other SourceBuffer was updating,
\* BUFFER_FULL was emitted, and the audio segment was accepted afterwards.
AppendDisciplineWitness ==
    /\ io.updating["audio"] /\ ~io.updating["video"]
    /\ Len(io.pendingSegments["video"]) >= 2
    /\ \E i, j, k \in 1..Len(out) :
          /\ i < j /\ j < k
          /\ out[i].t = "appendThrew" /\ out[i].type = "video"
          /\ out[j].t = "BUFFER_FULL"
          /\ out[k].t = "appended" /\ out[k].type = "audio"

(* -------------------------------- C40 --------------------------------- *)
EndOfStreamIssued(events) ==
    \E i \in 1..Len(events) : events[i].t = "endOfStream"

\* C40: endOfStream() on an open MediaSource with a SourceBuffer updating
\* only sets _hasPendingEos; MediaSource.endOfStream is never called while a
\* media segment is pending; and the updateend that finds an end of stream
\* pending, no SourceBuffer updating, no remove range and no segment pending
\* calls MediaSource.endOfStream.
DeferredEndOfStream ==
    [][/\ (/\ last'.op = "endOfStream" /\ io.mediaSource = "open"
           /\ (io.updating["video"] \/ io.updating["audio"]))
          => io'.hasPendingEos /\ ~EndOfStreamIssued(out')
       /\ \A i \in 1..Len(out') : out'[i].t = "endOfStream" => ~out'[i].flag
       /\ (/\ last'.op = "updateend" /\ io.hasPendingEos /\ io.mediaSource = "open"
           /\ ~(io.updating["video"] /\ io.updating["audio"])
           /\ ~HasPendingRemoveRanges(io) /\ ~HasPendingSegments(io))
          => EndOfStreamIssued(out')]_vars

====
